---- MODULE Spec2Model ----
(***************************************************************************)
(* Week/date reconciliation and progress aggregation of the training      *)
(* tracker (modules/base_trainer.py, modules/training_plan.py,            *)
(* modules/progress_calendar.py, main_app.py).                            *)
(*                                                                         *)
(* Conventions of the model                                                *)
(*  - A calendar date 'YYYY-MM-DD' is the integer number of days since a   *)
(*    reference Monday (day 0); datetime.weekday() is d % 7 (0 = Monday),  *)
(*    timedelta arithmetic is integer arithmetic.                          *)
(*  - An exercise identifier "{group}_{name}_{day}_week{N}" is the record  *)
(*    [mg, name, day, week]; week = 0 stands for an identifier that has no *)
(*    "_week" suffix (the legacy format).                                  *)
(*  - A dict of the progress document is a function; the insertion order   *)
(*    of a day's entries is kept as far as the code can observe it: the    *)
(*    order in which week suffixes first appeared (field worder).          *)
(*  - A percentage completed/total*100 is kept as the pair num/den; the    *)
(*    comparison with 80 is done in integers (num*100 >= 80*den).          *)
(*  - 'last_saved' timestamps are only ever compared with each other, so   *)
(*    they are kept as ranks: 0 = no timestamp, a later save has a larger  *)
(*    rank; the ranks are renumbered at the end of every operation.        *)
(***************************************************************************)
EXTENDS Integers, Sequences, FiniteSets, TLC

VARIABLES
    mem,            \* self.progress_data of the acting module instance
    file,           \* progress_data.json
    current_week,   \* st.session_state.current_week
    today,          \* datetime.now() (the calendar day of the session)
    last            \* the last operation performed and what it returned

vars == <<mem, file, current_week, today, last>>

(***************************************************************************)
(* Bounds of the model                                                     *)
(***************************************************************************)
MaxProbeWeek == 21     \* week numbers given to the pure functions
MaxEntries == 2        \* suffixed entries logged through the mutation interface
MaxFalse == 1          \* entries of the plan view that are un-marked at a time
MaxStatsWeek == 5      \* week numbers the day statistics are examined for

(***************************************************************************)
(* Program constants                                                       *)
(***************************************************************************)
TotalWeeks == 20       \* weeks of the calendar mapping / cap of auto-advance
WeeksPerLevel == 4
DaysPerWeek == 7
TrainedThreshold == 80
StreakWindow == 60
RecentDays == 30
DaysPerMonth == 30     \* length of a 'YYYY-MM' bucket in the model's calendar

day_names == <<"lunes", "martes", "miercoles", "jueves", "viernes", "sabado", "domingo">>

DayKeys == {day_names[i] : i \in 1..DaysPerWeek}

\* date_obj.weekday(): 0 = Monday .. 6 = Sunday
Weekday(d) == d % DaysPerWeek

\* day_names[date_obj.weekday()]
DayKeyOf(d) == day_names[Weekday(d) + 1]

\* day_names.index(day_key) if day_key in day_names else 0
DayIndex(day_key) ==
    IF day_key \in DayKeys
    THEN (CHOOSE i \in 1..DaysPerWeek : day_names[i] = day_key) - 1
    ELSE 0

\* date_str[:7]
MonthKey(d) == d \div DaysPerMonth

(***************************************************************************)
(* Configuration Store (config.json): exercises per muscle group and the   *)
(* base schedule. 'semana4' is absent and 'semana3' has no 'domingo' key;  *)
(* 'cardio' is scheduled but has no exercises defined.                     *)
(***************************************************************************)
Ex(n, l, f) == [name |-> n, level |-> l, forearm |-> f]

RestWeek == [d \in DayKeys |-> <<>>]

config ==
    [ exercises |->
        [ pecho    |-> << Ex("p1", 1, FALSE), Ex("p2", 1, FALSE), Ex("p3", 1, FALSE), Ex("p4", 2, FALSE) >>,
          espalda  |-> << Ex("e1", 1, FALSE), Ex("e2", 1, FALSE) >>,
          piernas  |-> << Ex("l1", 1, FALSE), Ex("l2", 3, FALSE) >>,
          brazos   |-> << Ex("b1", 1, FALSE), Ex("f1", 2, TRUE), Ex("f2", 1, TRUE),
                          Ex("b2", 2, FALSE), Ex("f3", 1, TRUE), Ex("f4", 3, TRUE) >>,
          hombros  |-> << Ex("h1", 1, FALSE) >>,
          abs      |-> << Ex("a1", 1, FALSE) >> ],
      weekly_schedule |->
        ( 1 :> [RestWeek EXCEPT !["lunes"] = <<"pecho", "espalda">>,
                                !["miercoles"] = <<"piernas">>] @@
          2 :> [RestWeek EXCEPT !["lunes"] = <<"brazos">>,
                                !["jueves"] = <<"cardio">>] @@
          3 :> [d \in DayKeys \ {"domingo"} |->
                    IF d = "lunes" THEN <<"pecho">>
                    ELSE IF d = "sabado" THEN <<"espalda", "hombros", "abs">>
                    ELSE <<>>] ) ]

Groups == DOMAIN config.exercises

\* the element of a one-element set. { e : x \in {v} } is e with x standing
\* for the value of v, which is computed once: the form the operators below
\* use for a local variable of the code that is read more than once.
The(S) == CHOOSE x \in S : TRUE

\* dict.get(key, default)
Get(f, k, default) == IF k \in DOMAIN f THEN f[k] ELSE default

(***************************************************************************)
(* Week/Level Resolver                                                     *)
(***************************************************************************)
\* level and week in cycle counted from week_number instead of week_number - 1
get_week_info_from_zero(week_number) ==
    [ level |-> (week_number \div WeeksPerLevel) + 1,
      week_in_cycle |-> (week_number % WeeksPerLevel) + 1,
      total_weeks_completed |-> week_number - 1 ]

\* BaseTrainer.get_week_info: the keys of the returned dict (there is no
\* 'days' key)
get_week_info(week_number) ==
    [ level |-> ((week_number - 1) \div WeeksPerLevel) + 1,
      week_in_cycle |-> ((week_number - 1) % WeeksPerLevel) + 1,
      total_weeks_completed |-> week_number - 1 ]

(***************************************************************************)
(* Schedule Generator (TrainingPlanModule)                                 *)
(***************************************************************************)
advanced_plan ==
    [ lunes     |-> <<"pecho", "hombros", "abs">>,
      martes    |-> <<"espalda", "brazos", "cardio">>,
      miercoles |-> <<>>,
      jueves    |-> <<"piernas", "gemelos", "abs">>,
      viernes   |-> <<"pecho", "espalda", "cardio">>,
      sabado    |-> <<"brazos", "hombros", "cardio">>,
      domingo   |-> <<>> ]

\* x in list
InSeq(x, s) == \E i \in 1..Len(s) : s[i] = x

\* a conversion of every rest day, not only of Tuesday
FrequencyDay_any_rest(day, muscle_groups) ==
    IF muscle_groups = <<>>
    THEN <<"hombros", "abs", "cardio">>
    ELSE muscle_groups

\* one day of intensify_schedule, mode "frequency"
FrequencyDay(day, muscle_groups) ==
    IF day = "martes" /\ muscle_groups = <<>>
    THEN <<"hombros", "abs", "cardio">>
    ELSE muscle_groups

\* one day of intensify_schedule, mode "volume"
VolumeDay(day, muscle_groups) ==
    IF day = "martes" /\ muscle_groups = <<>>
    THEN <<"hombros", "abs", "cardio">>
    ELSE IF muscle_groups # <<>>
    THEN IF day \in {"lunes", "sabado"} /\ ~InSeq("cardio", muscle_groups)
         THEN muscle_groups \o <<"cardio">>
         ELSE IF ~InSeq("abs", muscle_groups) /\ Len(muscle_groups) < 3
         THEN muscle_groups \o <<"abs">>
         ELSE muscle_groups
    ELSE muscle_groups

\* TrainingPlanModule.intensify_schedule: the loop runs over the days of the
\* base schedule, so an empty base schedule yields an empty plan in every mode
intensify_schedule(base_schedule, mode) ==
    IF mode = "frequency"
    THEN [day \in DOMAIN base_schedule |-> FrequencyDay(day, base_schedule[day])]
    ELSE IF mode = "volume"
    THEN [day \in DOMAIN base_schedule |-> VolumeDay(day, base_schedule[day])]
    ELSE IF DOMAIN base_schedule = {} THEN base_schedule ELSE advanced_plan

\* TrainingPlanModule.generate_advanced_week, from the base schedule it has
\* read: the mode follows from the level of the week
IntensifiedWeek(base_schedule, week_number) ==
    LET level == ((week_number - 1) \div WeeksPerLevel) + 1
    IN  IF level = 1 THEN base_schedule
        ELSE IF level = 2 THEN intensify_schedule(base_schedule, "frequency")
        ELSE IF level = 3 THEN intensify_schedule(base_schedule, "volume")
        ELSE intensify_schedule(base_schedule, "advanced")

\* TrainingPlanModule.generate_advanced_week: the base schedule is
\* config['weekly_schedule']['semana{cycle}'], {} when it is missing
generate_advanced_week(week_number) ==
    LET cycle == ((week_number - 1) % WeeksPerLevel) + 1
    IN  IntensifiedWeek(Get(config.weekly_schedule, cycle, <<>>), week_number)

\* The week plan every day-statistics function starts from: the literal
\* config entry for weeks 1..4 (has = FALSE when 'semana{N}' is missing),
\* the generated plan above that.
WeekPlan(week_number) ==
    IF week_number <= WeeksPerLevel
    THEN [has |-> week_number \in DOMAIN config.weekly_schedule,
          plan |-> Get(config.weekly_schedule, week_number, <<>>)]
    ELSE [has |-> TRUE, plan |-> generate_advanced_week(week_number)]

\* week_plan.get(day_key, [])
PlannedGroups(week_number, day_key) == Get(WeekPlan(week_number).plan, day_key, <<>>)

(***************************************************************************)
(* Exercise Selection Engine (BaseTrainer)                                 *)
(***************************************************************************)
\* a filter that keeps the exercises of the current level only
filter_exercises_by_level_exact(exercises, current_level) ==
    LET AtLevel(e) == e.level = current_level
    IN  SelectSeq(exercises, AtLevel)

\* BaseTrainer._filter_exercises_by_level
filter_exercises_by_level(exercises, current_level) ==
    LET Unlocked(e) == e.level <= current_level
    IN  SelectSeq(exercises, Unlocked)

\* list.sort(key=difficulty_level): a stable insertion of e into sorted s
RECURSIVE InsertByLevel(_, _)
InsertByLevel(s, e) ==
    IF s = <<>> THEN <<e>>
    ELSE IF s[Len(s)].level <= e.level THEN Append(s, e)
    ELSE Append(InsertByLevel(SubSeq(s, 1, Len(s) - 1), e), s[Len(s)])

RECURSIVE SortByLevel(_)
SortByLevel(s) ==
    IF s = <<>> THEN <<>>
    ELSE InsertByLevel(SortByLevel(SubSeq(s, 1, Len(s) - 1)), s[Len(s)])

\* a rotation by the day of the week alone
RotationIndex_by_day(day_key, week_number, n) ==
    DayIndex(day_key) % n

\* the rotation index of _choose_forearm_exercise_by_level
RotationIndex(day_key, week_number, n) ==
    ((week_number - 1) * DaysPerWeek + DayIndex(day_key)) % n

\* BaseTrainer._choose_forearm_exercise_by_level: <<>> stands for None,
\* otherwise the one-element list of the chosen exercise
choose_forearm_exercise_by_level(day_key, week_number, forearm_exercises) ==
    IF forearm_exercises = <<>> THEN <<>>
    ELSE LET sorted == SortByLevel(forearm_exercises)
         IN  <<sorted[RotationIndex(day_key, week_number, Len(sorted)) + 1]>>

\* BaseTrainer.get_planned_exercises_for_group
get_planned_exercises_for_group(muscle_group, day_key, week_number) ==
    LET all_ex == Get(config.exercises, muscle_group, <<>>)
        current_level == ((week_number - 1) \div WeeksPerLevel) + 1
        available_exercises == filter_exercises_by_level(all_ex, current_level)
        IsForearm(e) == e.forearm
        NotForearm(e) == ~e.forearm
    IN  IF muscle_group = "brazos"
        THEN SelectSeq(available_exercises, NotForearm)
                \o choose_forearm_exercise_by_level(day_key, week_number,
                        SelectSeq(available_exercises, IsForearm))
        ELSE available_exercises

(***************************************************************************)
(* Progression of repetitions (BaseTrainer.get_general_progression).       *)
(* A text is the sequence of its characters.                               *)
(***************************************************************************)
DigitChars == <<"0", "1", "2", "3", "4", "5", "6", "7", "8", "9">>

\* c.isdigit()
IsDigit(c) == \E i \in 1..Len(DigitChars) : DigitChars[i] = c

\* sub in text
Contains(text, sub) ==
    \E i \in 1..(Len(text) - Len(sub) + 1) : SubSeq(text, i, i + Len(sub) - 1) = sub

\* text.split(sep) for a separator of one character
RECURSIVE Split(_, _)
Split(text, sep) ==
    IF \A i \in 1..Len(text) : text[i] # sep THEN <<text>>
    ELSE LET k == CHOOSE i \in 1..Len(text) :
                      text[i] = sep /\ \A j \in 1..(i - 1) : text[j] # sep
         IN  <<SubSeq(text, 1, k - 1)>> \o Split(SubSeq(text, k + 1, Len(text)), sep)

\* sep.join(parts)
RECURSIVE Join(_, _)
Join(parts, sep) ==
    IF parts = <<>> THEN <<>>
    ELSE IF Len(parts) = 1 THEN parts[1]
    ELSE parts[1] \o <<sep>> \o Join(Tail(parts), sep)

\* text.strip()
RECURSIVE Strip(_)
Strip(text) ==
    IF text = <<>> THEN text
    ELSE IF Head(text) = " " THEN Strip(Tail(text))
    ELSE IF text[Len(text)] = " " THEN Strip(SubSeq(text, 1, Len(text) - 1))
    ELSE text

\* int(text) raises no ValueError: the text is a non-empty run of digits
IsInt(text) == text # <<>> /\ \A i \in 1..Len(text) : IsDigit(text[i])

\* int(text)
RECURSIVE ParseInt(_)
ParseInt(text) ==
    IF text = <<>> THEN 0
    ELSE 10 * ParseInt(SubSeq(text, 1, Len(text) - 1))
            + ((CHOOSE i \in 1..Len(DigitChars) : DigitChars[i] = text[Len(text)]) - 1)

\* str(n) for n >= 0
RECURSIVE Str(_)
Str(n) ==
    IF n < 10 THEN <<DigitChars[n + 1]>>
    ELSE Str(n \div 10) \o <<DigitChars[(n % 10) + 1]>>

\* the number and the suffix of "10 por pierna": ok is FALSE when int() raises
NumberAndSuffix(part) ==
    IF Contains(part, <<" ">>)
    THEN LET words == Split(part, " ")
         IN  [ok |-> IsInt(words[1]), n |-> ParseInt(words[1]),
              suffix |-> <<" ">> \o Join(Tail(words), " ")]
    ELSE [ok |-> IsInt(part), n |-> ParseInt(part), suffix |-> <<>>]

\* BaseTrainer.get_general_progression
get_general_progression(level, original_reps) ==
    LET increase == (level - 1) * 2
    IN  IF ~\E i \in 1..Len(original_reps) : IsDigit(original_reps[i])
        THEN original_reps
        ELSE IF \/ Contains(original_reps, <<"k", "m">>)
                \/ Contains(original_reps, <<"s", "e", "g", "u", "n", "d", "o", "s">>)
                \/ Contains(original_reps, <<"m", "i", "n">>)
        THEN original_reps
        ELSE IF Contains(original_reps, <<"-">>)
        THEN LET parts == Split(original_reps, "-")
                 min_part == Strip(parts[1])
                 max_reps == NumberAndSuffix(Strip(parts[2]))
             IN  IF IsInt(min_part) /\ max_reps.ok
                 THEN Str(ParseInt(min_part) + increase) \o <<"-">>
                          \o Str(max_reps.n + increase) \o max_reps.suffix
                 ELSE original_reps
        ELSE LET reps == NumberAndSuffix(Strip(original_reps))
             IN  IF reps.ok THEN Str(reps.n + increase) \o reps.suffix
                 ELSE original_reps

(***************************************************************************)
(* Progress Log (progress_data.json and self.progress_data)                *)
(*   ce   'completed_exercises': date -> [vals: id -> bool, worder]        *)
(*   ew   'exercise_weeks': date -> week (has_ew: the key exists)          *)
(*   cw   'completed_workouts': month -> dates (the lists, as sets)        *)
(*   start 'program_start_date' (has: the key exists)                      *)
(*   map  'calendar_mapping': kind is the type of its keys, "int" as built *)
(*        by update_calendar_mapping, "str" as read back from JSON         *)
(***************************************************************************)
NoMapping == [has |-> FALSE, kind |-> "str", weeks |-> <<>>]

\* default_data of BaseTrainer.load_progress_data
default_data ==
    [ ce |-> <<>>, has_ew |-> TRUE, ew |-> <<>>, cw |-> <<>>, total_workouts |-> 0,
      start |-> [has |-> FALSE, d |-> 0], map |-> NoMapping, last_saved |-> 0 ]

\* what a write to progress_data.json does: left is "written" when it
\* succeeds; when it fails the file is left "old" (untouched, or restored from
\* the backup copy made at the start of the same save) or "corrupt" (truncated
\* or partly written, not restored), and raises tells whether the restoring
\* copy in the except block of save_progress_data fails as well
NoFault == [left |-> "written", raises |-> FALSE]

Faults == { [left |-> l, raises |-> r] : l \in {"old", "corrupt"}, r \in BOOLEAN }

\* progress_data.json: corrupt is a file json.load cannot read
FileOf(data) == [exists |-> TRUE, corrupt |-> FALSE, data |-> data, fault |-> NoFault]

NoFile == [exists |-> FALSE, corrupt |-> FALSE, data |-> default_data, fault |-> NoFault]

\* f"{muscle_group}_{exercise['name']}_{day_key}_week{week_number}"
ExerciseId(muscle_group, name, day_key, week_number) ==
    [mg |-> muscle_group, name |-> name, day |-> day_key, week |-> week_number]

\* the unique id of mark_exercise_completed / is_exercise_completed:
\* the id as it is when it contains '_week', else with the suffix appended
UniqueId(exercise_id, week_number) ==
    IF exercise_id.week # 0 THEN exercise_id
    ELSE [exercise_id EXCEPT !.week = week_number]

\* self.progress_data.get('completed_exercises', {}).get(date_str, {})
DayMap(pd, date_str) == IF date_str \in DOMAIN pd.ce THEN pd.ce[date_str].vals ELSE <<>>

\* a lookup that falls back to the entries of the other weeks
is_exercise_completed_any_week(pd, date_str, exercise_id, week_number) ==
    \E id \in DOMAIN DayMap(pd, date_str) :
        /\ [id EXCEPT !.week = 0] = [exercise_id EXCEPT !.week = 0]
        /\ DayMap(pd, date_str)[id]

\* BaseTrainer.is_exercise_completed. base_id is exercise_id with
\* "_week{week_number}" removed; when the id carries another week the
\* result of replace() still contains '_week' or is no key of the day map.
is_exercise_completed(pd, date_str, exercise_id, week_number) ==
    LET day_map == DayMap(pd, date_str)
        unique_id == UniqueId(exercise_id, week_number)
        base_id == IF exercise_id.week = week_number
                   THEN [exercise_id EXCEPT !.week = 0]
                   ELSE exercise_id
    IN  IF unique_id \in DOMAIN day_map THEN day_map[unique_id]
        ELSE IF base_id.week = 0 /\ base_id \in DOMAIN day_map THEN day_map[base_id]
        ELSE FALSE

(***************************************************************************)
(* Day statistics                                                          *)
(***************************************************************************)
Pct(n, d) == [num |-> n, den |-> d]

\* percentage >= k
PctGE(p, k) == p.num * 100 >= k * p.den

\* percentage == k
PctEq(p, k) == p.num * 100 = k * p.den

\* the planned exercises of a day, group by group; a group that is not in
\* config['exercises'] contributes nothing
RECURSIVE PlannedOfDay(_, _, _)
PlannedOfDay(muscle_groups, day_key, week_number) ==
    IF muscle_groups = <<>> THEN <<>>
    ELSE LET mg == Head(muscle_groups)
             planned == IF mg \in DOMAIN config.exercises
                        THEN get_planned_exercises_for_group(mg, day_key, week_number)
                        ELSE <<>>
         IN  [i \in 1..Len(planned) |-> [mg |-> mg, name |-> planned[i].name]]
                \o PlannedOfDay(Tail(muscle_groups), day_key, week_number)

\* exercise_list of the plan-based statistics
ExerciseList(pd, date_str, day_key, week_number, planned) ==
    [i \in 1..Len(planned) |->
        [name |-> planned[i].name, muscle_group |-> planned[i].mg,
         completed |-> is_exercise_completed(pd, date_str,
                          ExerciseId(planned[i].mg, planned[i].name, day_key, week_number),
                          week_number)]]

CountCompleted(exercise_list) ==
    Cardinality({i \in 1..Len(exercise_list) : exercise_list[i].completed})

RestDayStats(pct) ==
    [completed |-> 0, total |-> 0, percentage |-> pct, exercises |-> <<>>,
     muscle_groups |-> <<>>, is_rest_day |-> TRUE, is_empty_day |-> FALSE]

\* TrainingPlanModule.get_day_completion_stats
TP_get_day_completion_stats(pd, date_str, week_number) ==
    LET day_key == DayKeyOf(date_str)
        muscle_groups == PlannedGroups(week_number, day_key)
    IN  IF ~WeekPlan(week_number).has \/ muscle_groups = <<>>
        THEN RestDayStats(Pct(100, 100))
        ELSE The({
             LET total_exercises == Len(exercise_list)
                 completed_exercises == CountCompleted(exercise_list)
             IN  [completed |-> completed_exercises, total |-> total_exercises,
                  percentage |-> IF total_exercises > 0
                                 THEN Pct(completed_exercises, total_exercises)
                                 ELSE Pct(100, 100),
                  exercises |-> exercise_list, muscle_groups |-> muscle_groups,
                  is_rest_day |-> FALSE, is_empty_day |-> FALSE]
             : exercise_list \in {ExerciseList(pd, date_str, day_key, week_number,
                                     PlannedOfDay(muscle_groups, day_key, week_number))} })

\* BaseTrainer.get_day_completion_stats_internal: completed_exercises is
\* incremented twice for every completed exercise (two 'if is_completed'
\* statements in the loop)
get_day_completion_stats_internal(pd, date_str, week_number) ==
    LET day_key == DayKeyOf(date_str)
        muscle_groups == PlannedGroups(week_number, day_key)
    IN  IF ~WeekPlan(week_number).has \/ muscle_groups = <<>>
        THEN RestDayStats(Pct(100, 100))
        ELSE The({
             LET total_exercises == Len(exercise_list)
                 completed_exercises == CountCompleted(exercise_list) + CountCompleted(exercise_list)
             IN  [completed |-> completed_exercises, total |-> total_exercises,
                  percentage |-> IF total_exercises > 0
                                 THEN Pct(completed_exercises, total_exercises)
                                 ELSE Pct(100, 100),
                  exercises |-> exercise_list, muscle_groups |-> muscle_groups,
                  is_rest_day |-> FALSE, is_empty_day |-> FALSE]
             : exercise_list \in {ExerciseList(pd, date_str, day_key, week_number,
                                     PlannedOfDay(muscle_groups, day_key, week_number))} })

\* {k: v for k, v in exercises_data.items() if k.endswith(f"_week{week_num}")}
FilterByWeek(day_map, week_num) == {id \in DOMAIN day_map : id.week = week_num}

\* expected_total: the planned exercises of every planned group (here the
\* group is not checked against config['exercises']; .get() yields [])
RECURSIVE ExpectedTotal(_, _, _)
ExpectedTotal(muscle_groups, day_key, week_number) ==
    IF muscle_groups = <<>> THEN 0
    ELSE Len(get_planned_exercises_for_group(Head(muscle_groups), day_key, week_number))
            + ExpectedTotal(Tail(muscle_groups), day_key, week_number)

\* the statistics ProgressModule computes from the entries logged on the date;
\* exercise_list and list(muscle_groups) are kept as sets, an exercise with
\* the identifier its name and group are split from
LoggedStats(day_map, ids) ==
    LET total_exercises == Cardinality(ids)
        completed_exercises == Cardinality({id \in ids : day_map[id]})
    IN  [completed |-> completed_exercises, total |-> total_exercises,
         percentage |-> IF total_exercises > 0
                        THEN Pct(completed_exercises, total_exercises)
                        ELSE Pct(0, 100),
         exercises |-> {[id |-> id, completed |-> day_map[id]] : id \in ids},
         muscle_groups |-> {id.mg : id \in ids},
         is_rest_day |-> FALSE, is_empty_day |-> FALSE]

EmptyDayStats(muscle_groups, day_key, week_number) ==
    [completed |-> 0, total |-> ExpectedTotal(muscle_groups, day_key, week_number),
     percentage |-> Pct(0, 100), exercises |-> <<>>, muscle_groups |-> muscle_groups,
     is_rest_day |-> FALSE, is_empty_day |-> TRUE]

\* ProgressModule.get_day_completion_stats (week_number given)
PM_get_day_completion_stats(pd, date_str, week_number) ==
    LET day_key == DayKeyOf(date_str)
        muscle_groups_planned == PlannedGroups(week_number, day_key)
        exercises_data == DayMap(pd, date_str)
        filtered_exercises == FilterByWeek(exercises_data, week_number)
    IN  IF muscle_groups_planned = <<>>
        THEN RestDayStats(Pct(0, 100))
        ELSE IF filtered_exercises # {}
        THEN LoggedStats(exercises_data, filtered_exercises)
        ELSE EmptyDayStats(muscle_groups_planned, day_key, week_number)

\* ProgressModule.get_day_completion_stats_filtered
get_day_completion_stats_filtered(pd, date_str, filter_week) ==
    LET day_key == DayKeyOf(date_str)
        muscle_groups_planned == PlannedGroups(filter_week, day_key)
        exercises_data == DayMap(pd, date_str)
        filtered_exercises == FilterByWeek(exercises_data, filter_week)
    IN  IF muscle_groups_planned = <<>>
        THEN RestDayStats(Pct(0, 100))
        ELSE IF filtered_exercises = {}
        THEN EmptyDayStats(muscle_groups_planned, day_key, filter_week)
        ELSE LoggedStats(exercises_data, filtered_exercises)

(***************************************************************************)
(* Storage. A world W is what an operation reads and writes:               *)
(*   pd      self.progress_data                                            *)
(*   file    progress_data.json                                            *)
(*   now     the next value of datetime.now()                              *)
(***************************************************************************)
World(pd, f, now) == [pd |-> pd, file |-> f, now |-> now, raised |-> FALSE]

\* json.dump / json.load of the document: the integer keys of
\* 'calendar_mapping' come back as strings, everything else is unchanged
JsonRoundTrip(pd) ==
    [pd EXCEPT !.map.kind = "str"]

\* BaseTrainer.migrate_progress_data
migrate_progress_data(data) ==
    IF data.has_ew THEN data
    ELSE [data EXCEPT !.has_ew = TRUE, !.ew = [d \in DOMAIN data.ce |-> 1]]

\* a save that stamps the document and leaves the file as it was
save_progress_data_unwritten(W0) ==
    The({ [W EXCEPT !.pd.last_saved = W.now, !.now = W.now + 1] : W \in {W0} })

\* BaseTrainer.save_progress_data. 'last_saved' is stamped before the try
\* block. The backup copy it makes of the old file is read only by the same
\* call, when the write fails; raised is an exception that leaves the call
\* (callers other than mark_exercise_completed and force_sync_progress are
\* run with a storage that accepts the write).
save_progress_data(W0) ==
    The({ IF W.file.fault = NoFault
          THEN [ pd |-> stamped,
                 file |-> FileOf(JsonRoundTrip(stamped)),
                 now |-> W.now + 1,
                 raised |-> FALSE ]
          ELSE [ pd |-> stamped,
                 file |-> IF W.file.fault.left = "corrupt"
                          THEN [W.file EXCEPT !.exists = TRUE, !.corrupt = TRUE,
                                              !.data = default_data]
                          ELSE W.file,
                 now |-> W.now + 1,
                 raised |-> W.file.fault.raises ]
          : W \in {W0}, stamped \in {[W0.pd EXCEPT !.last_saved = W0.now]} })

\* BaseTrainer.load_progress_data / reload_progress_data: a file that cannot
\* be read gives the defaults and is left as it is; a missing file is created
\* with the defaults (save_progress_data_internal)
load_progress_data(W0) ==
    The({ IF W.file.exists /\ ~W.file.corrupt
          THEN [W EXCEPT !.pd = migrate_progress_data(W.file.data)]
          ELSE IF W.file.exists
          THEN [W EXCEPT !.pd = default_data]
          ELSE [W EXCEPT !.pd = default_data,
                         !.file = [FileOf(default_data) EXCEPT !.fault = W.file.fault]]
          : W \in {W0} })

\* a synchronisation that always keeps what it has read from the file
force_sync_progress_from_file(W0) ==
    load_progress_data(W0)

\* BaseTrainer.force_sync_progress: an exception of the save is caught
force_sync_progress(W0) ==
    The({ LET temp_data == W.pd
          IN  The({ IF temp_data.last_saved > loaded.pd.last_saved
                    THEN [save_progress_data([loaded EXCEPT !.pd = temp_data])
                              EXCEPT !.raised = FALSE]
                    ELSE loaded
                    : loaded \in {load_progress_data(W)} })
          : W \in {W0} })

(***************************************************************************)
(* Calendar mapping                                                        *)
(***************************************************************************)
WeekRecord(week_start) ==
    [ start_date |-> week_start,
      end_date |-> week_start + (DaysPerWeek - 1),
      dates |-> [i \in 1..DaysPerWeek |-> week_start + (i - 1)] ]

\* monday of the week of d: d - timedelta(days=d.weekday())
MondayOf(d) == d - Weekday(d)

\* a mapping whose weeks begin at the monday of the week of the start date
update_calendar_mapping_from_monday(pd) ==
    IF ~pd.start.has THEN pd
    ELSE [pd EXCEPT !.map =
            [ has |-> TRUE, kind |-> "int",
              weeks |-> [week_num \in 1..TotalWeeks |->
                            WeekRecord(MondayOf(pd.start.d) + DaysPerWeek * (week_num - 1))] ]]

\* BaseTrainer.update_calendar_mapping: keys are the integers 1..20
update_calendar_mapping(pd) ==
    IF ~pd.start.has THEN pd
    ELSE [pd EXCEPT !.map =
            [ has |-> TRUE, kind |-> "int",
              weeks |-> [week_num \in 1..TotalWeeks |->
                            WeekRecord(pd.start.d + DaysPerWeek * (week_num - 1))] ]]

\* BaseTrainer.initialize_calendar_mapping
initialize_calendar_mapping(W0, now_date) ==
    The({ IF W.pd.map.has THEN W
          ELSE LET started == IF W.pd.start.has THEN W.pd
                              ELSE [W.pd EXCEPT !.start = [has |-> TRUE, d |-> MondayOf(now_date)]]
               IN  save_progress_data([W EXCEPT !.pd = update_calendar_mapping(started)])
          : W \in {W0} })

\* BaseTrainer.get_week_dates: the mapping is looked up under str(week_number)
get_week_dates(pd, week_number, now_date) ==
    IF pd.map.has /\ pd.map.kind = "str" /\ week_number \in DOMAIN pd.map.weeks
    THEN pd.map.weeks[week_number]
    ELSE IF pd.start.has
    THEN WeekRecord(MondayOf(pd.start.d) + DaysPerWeek * (week_number - 1))
    ELSE WeekRecord(MondayOf(now_date))

\* BaseTrainer.get_calendar_week_for_date: the week of the stored mapping
\* whose dates hold the date (keys of either kind), else the week counted
\* from the monday of the week of the start date, limited to 1..20, else
\* the week of the session
get_calendar_week_for_date(pd, date_str, session_week) ==
    LET found == { week_num \in (IF pd.map.has THEN DOMAIN pd.map.weeks ELSE {}) :
                       \E i \in 1..DaysPerWeek : pd.map.weeks[week_num].dates[i] = date_str }
    IN  IF found # {} THEN CHOOSE week_num \in found : \A v \in found : week_num <= v
        ELSE IF pd.start.has
        THEN LET week_num == ((date_str - MondayOf(pd.start.d)) \div DaysPerWeek) + 1
             IN  IF week_num < 1 THEN 1
                 ELSE IF week_num > TotalWeeks THEN TotalWeeks
                 ELSE week_num
        ELSE session_week

\* '/' in start_date
HasSlash(start_date) == start_date.fmt \in {"dmy", "ymd/"}

\* a call that stores the date of the text without parsing it
set_program_start_date_unparsed(W0, start_date) ==
    [ok |-> TRUE,
     w |-> save_progress_data([W0 EXCEPT !.pd =
               update_calendar_mapping([W0.pd EXCEPT !.start = [has |-> TRUE, d |-> start_date.d]])])]

\* BaseTrainer.set_program_start_date. The argument is a date text: fmt is
\* "dmy" for DD/MM/YYYY, "ymd" for YYYY-MM-DD, "ymd/" for YYYY/MM/DD, "dmy-"
\* for DD-MM-YYYY and "bad" for a text that is no date; d is the date it
\* denotes. A text with '/' is parsed with '%d/%m/%Y', any other with
\* '%Y-%m-%d'. ok is the value returned.
set_program_start_date(W0, start_date) ==
    The({ IF (HasSlash(start_date) /\ start_date.fmt = "dmy")
               \/ (~HasSlash(start_date) /\ start_date.fmt = "ymd")
          THEN [ok |-> TRUE,
                w |-> save_progress_data([W EXCEPT !.pd =
                          update_calendar_mapping(
                              [W.pd EXCEPT !.start = [has |-> TRUE, d |-> start_date.d]])])]
          ELSE [ok |-> FALSE, w |-> W]
          : W \in {W0} })

(***************************************************************************)
(* Auto-detected week                                                      *)
(***************************************************************************)
\* BaseTrainer.get_week_completion_stats_for_week. training_days is
\* week_info.get('days', []), read from the dict get_week_info returns.
get_week_completion_stats_for_week(pd, week_number, now_date) ==
    LET week_dates == get_week_dates(pd, week_number, now_date)
        training_days == Get(get_week_info(week_number), "days", <<>>)
        counted == {i \in 1..Len(week_dates.dates) : InSeq(day_names[i], training_days)}
        total_training_days == Cardinality(counted)
        completed_training_days ==
            Cardinality({i \in counted :
                PctGE(get_day_completion_stats_internal(pd, week_dates.dates[i], week_number).percentage,
                      TrainedThreshold)})
    IN  [ percentage |-> IF total_training_days > 0
                         THEN Pct(completed_training_days, total_training_days)
                         ELSE Pct(0, 100),
          completed_days |-> completed_training_days,
          total_days |-> total_training_days ]

\* the week suffixes of the entries whose value is true
CompletedWeeks(pd) ==
    {id.week : id \in UNION {{i \in DOMAIN pd.ce[d].vals : pd.ce[d].vals[i]} : d \in DOMAIN pd.ce}}
        \ {0}

SetMax(S) == CHOOSE x \in S : \A y \in S : y <= x

\* a detection that starts again at week 1 while the highest week with
\* progress is not yet 80% complete
get_auto_detected_week_restarting(pd0, now_date) ==
    The({ IF DOMAIN pd.ce = {} THEN 1
          ELSE The({ IF max_week_with_progress > 0
                     THEN IF The({ PctGE(week_stats.percentage, TrainedThreshold)
                                   : week_stats \in {get_week_completion_stats_for_week(
                                                        pd, max_week_with_progress, now_date)} })
                          THEN IF max_week_with_progress + 1 < TotalWeeks
                               THEN max_week_with_progress + 1 ELSE TotalWeeks
                          ELSE 1
                     ELSE 1
                     : max_week_with_progress \in
                           {IF CompletedWeeks(pd) = {} THEN 0 ELSE SetMax(CompletedWeeks(pd))} })
          : pd \in {pd0} })

\* BaseTrainer.get_auto_detected_week
get_auto_detected_week(pd0, now_date) ==
    The({ IF DOMAIN pd.ce = {} THEN 1
          ELSE The({ IF max_week_with_progress > 0
                     THEN IF The({ PctGE(week_stats.percentage, TrainedThreshold)
                                   : week_stats \in {get_week_completion_stats_for_week(
                                                        pd, max_week_with_progress, now_date)} })
                          THEN IF max_week_with_progress + 1 < TotalWeeks
                               THEN max_week_with_progress + 1 ELSE TotalWeeks
                          ELSE max_week_with_progress
                     ELSE 1
                     : max_week_with_progress \in
                           {IF CompletedWeeks(pd) = {} THEN 0 ELSE SetMax(CompletedWeeks(pd))} })
          : pd \in {pd0} })

(***************************************************************************)
(* Completion Ledger                                                       *)
(***************************************************************************)
\* self.progress_data['completed_exercises'][date_str][unique_id] = completed
\* worder keeps the order in which week suffixes first entered the day's dict
SetEntry(ce, date_str, unique_id, completed) ==
    LET old == IF date_str \in DOMAIN ce THEN ce[date_str] ELSE [vals |-> <<>>, worder |-> <<>>]
        new == [ vals |-> (unique_id :> completed) @@ old.vals,
                 worder |-> IF unique_id.week = 0 \/ InSeq(unique_id.week, old.worder)
                            THEN old.worder ELSE Append(old.worder, unique_id.week) ]
    IN  (date_str :> new) @@ ce

\* dict[key] = value
Put(f, k, v) == (k :> v) @@ f

\* Counter(week_numbers).most_common(1)[0][0] over the entries of the given
\* dates, visited in the given order: the week with the largest count, the
\* one inserted first among equals
RECURSIVE WeekOrder(_, _)
WeekOrder(pd, dates) ==
    IF dates = <<>> THEN <<>>
    ELSE The({ LET d == dates[Len(dates)]
                   here == IF d \in DOMAIN pd.ce THEN pd.ce[d].worder ELSE <<>>
                   Fresh(w) == ~InSeq(w, rest)
               IN  rest \o SelectSeq(here, Fresh)
               : rest \in {WeekOrder(pd, SubSeq(dates, 1, Len(dates) - 1))} })

WeekCount(pd, dates, w) ==
    LET Count(d) == Cardinality({id \in DOMAIN DayMap(pd, d) : id.week = w})
        RECURSIVE Sum(_)
        Sum(i) == IF i = 0 THEN 0 ELSE Count(dates[i]) + Sum(i - 1)
    IN  Sum(Len(dates))

MostCommonWeek(pd, dates) ==
    The({ LET best == CHOOSE i \in 1..Len(order) :
                    /\ \A j \in 1..Len(order) : WeekCount(pd, dates, order[j]) <= WeekCount(pd, dates, order[i])
                    /\ \A j \in 1..(i - 1) : WeekCount(pd, dates, order[j]) < WeekCount(pd, dates, order[i])
          IN  order[best]
          : order \in {WeekOrder(pd, dates)} })

\* the result of a week resolution: the week and the world it leaves
Resolved(week, W) == [week |-> week, w |-> W]

\* TrainingPlanModule.get_week_number_for_date
TP_get_week_number_for_date(W0, date_str, session_week) ==
    The({ IF date_str \in DOMAIN W.pd.ew
          THEN Resolved(W.pd.ew[date_str], W)
          ELSE IF date_str \in DOMAIN W.pd.ce /\ WeekOrder(W.pd, <<date_str>>) # <<>>
          THEN The({ Resolved(most_common_week,
                        save_progress_data([W EXCEPT !.pd.ew = Put(@, date_str, most_common_week)]))
                     : most_common_week \in {MostCommonWeek(W.pd, <<date_str>>)} })
          ELSE Resolved(session_week, W)
          : W \in {W0} })

\* the ascending sequence of a set of dates
RECURSIVE SortedSeq(_)
SortedSeq(S) ==
    IF S = {} THEN <<>>
    ELSE LET m == CHOOSE x \in S : \A y \in S : x <= y
         IN  <<m>> \o SortedSeq(S \ {m})

\* completed_workouts[month_key] with date_str added
AddWorkout(cw, date_str) ==
    IF MonthKey(date_str) \in DOMAIN cw
    THEN [cw EXCEPT ![MonthKey(date_str)] = @ \cup {date_str}]
    ELSE Put(cw, MonthKey(date_str), {date_str})

\* is_rest_day or percentage >= 80
CountsAsTrained(stats0) ==
    The({ stats.is_rest_day \/ PctGE(stats.percentage, TrainedThreshold) : stats \in {stats0} })

\* one iteration of the loop of TrainingPlanModule.update_completed_workouts;
\* L is the world and the count of total_workouts so far
TP_UpdateStep(L0, date_str, session_week) ==
    The({ IF CountsAsTrained(TP_get_day_completion_stats(r.w.pd, date_str, r.week))
          THEN [w |-> [r.w EXCEPT !.pd.cw = AddWorkout(@, date_str)], total |-> L0.total + 1]
          ELSE [w |-> r.w, total |-> L0.total]
          : r \in {TP_get_week_number_for_date(L0.w, date_str, session_week)} })

\* the iterations lo..hi of that loop, in order
RECURSIVE TP_UpdateLoop(_, _, _, _, _)
TP_UpdateLoop(L0, dates, lo, hi, session_week) ==
    IF lo > hi THEN L0
    ELSE IF lo = hi THEN The({ TP_UpdateStep(L, dates[lo], session_week) : L \in {L0} })
    ELSE The({ TP_UpdateLoop(L, dates, ((lo + hi) \div 2) + 1, hi, session_week)
               : L \in {TP_UpdateLoop(L0, dates, lo, (lo + hi) \div 2, session_week)} })

\* TrainingPlanModule.update_completed_workouts: every date with entries and
\* the last 30 days (the set is visited in ascending order here);
\* total_workouts is stored when the loop has ended
TP_update_completed_workouts(W0, now_date, session_week) ==
    The({ The({ [L.w EXCEPT !.pd.total_workouts = L.total]
                : L \in {TP_UpdateLoop([w |-> [W EXCEPT !.pd.cw = <<>>], total |-> 0],
                                       all_dates, 1, Len(all_dates), session_week)} })
          : W \in {W0},
            all_dates \in {SortedSeq(DOMAIN W0.pd.ce \cup {now_date - i : i \in 0..(RecentDays - 1)})} })

\* BaseTrainer.update_completed_workouts: only the dates with entries, the
\* week taken from exercise_weeks (default 1), statistics from the internal
\* function; a date is appended to or removed from its month's list
update_completed_workouts(W0) ==
    The({ LET pd == W.pd
              Done(d) == CountsAsTrained(get_day_completion_stats_internal(pd, d, Get(pd.ew, d, 1)))
              months == DOMAIN pd.cw \cup {MonthKey(d) : d \in DOMAIN pd.ce}
              cw == [m \in months |->
                      (Get(pd.cw, m, {}) \cup {d \in DOMAIN pd.ce : MonthKey(d) = m /\ Done(d)})
                          \ {d \in DOMAIN pd.ce : MonthKey(d) = m /\ ~Done(d)}]
          IN  [W EXCEPT !.pd.cw = cw]
          : W \in {W0} })

\* a mark that assigns the week to the date also when it un-marks
mark_exercise_completed_assigning(cls, W0, date_str, exercise_id, completed, week_number, now_date, session_week) ==
    The({ LET W1 == [W EXCEPT !.pd.ce = SetEntry(@, date_str, UniqueId(exercise_id, week_number), completed),
                              !.pd.ew = Put(@, date_str, week_number)]
              W2 == IF cls = "training"
                    THEN TP_update_completed_workouts(W1, now_date, session_week)
                    ELSE update_completed_workouts(W1)
          IN  The({ IF saved.raised THEN saved ELSE force_sync_progress(saved)
                    : saved \in {save_progress_data(W2)} })
          : W \in {W0} })

\* BaseTrainer.mark_exercise_completed, run by an instance of class cls
\* ("base": BaseTrainer and the modules that do not override
\* update_completed_workouts; "training": TrainingPlanModule)
mark_exercise_completed(cls, W0, date_str, exercise_id, completed, week_number, now_date, session_week) ==
    The({ LET unique_exercise_id == UniqueId(exercise_id, week_number)
              ce == SetEntry(W.pd.ce, date_str, unique_exercise_id, completed)
              ew == IF completed \/ date_str \notin DOMAIN W.pd.ew
                    THEN Put(W.pd.ew, date_str, week_number)
                    ELSE W.pd.ew
              W1 == [W EXCEPT !.pd.ce = ce, !.pd.ew = ew]
              W2 == IF cls = "training"
                    THEN TP_update_completed_workouts(W1, now_date, session_week)
                    ELSE update_completed_workouts(W1)
          IN  The({ IF saved.raised THEN saved ELSE force_sync_progress(saved)
                    : saved \in {save_progress_data(W2)} })
          : W \in {W0} })

(***************************************************************************)
(* Week resolution and streak of ProgressModule                            *)
(***************************************************************************)
\* expected_exercises of the plan-matching step: every exercise of the
\* day's groups, as identifiers WITHOUT week suffix
ExpectedIds(week_num, day_key) ==
    LET muscle_groups == PlannedGroups(week_num, day_key)
    IN  UNION { IF muscle_groups[g] \in DOMAIN config.exercises
                THEN { ExerciseId(muscle_groups[g], config.exercises[muscle_groups[g]][e].name, day_key, 0) :
                          e \in 1..Len(config.exercises[muscle_groups[g]]) }
                ELSE {} : g \in 1..Len(muscle_groups) }

\* a week whose expected identifiers cover at least half of the logged ones
PlanMatches(pd, date_str, week_num) ==
    LET registered_exercises == DOMAIN DayMap(pd, date_str)
        expected_exercises == ExpectedIds(week_num, DayKeyOf(date_str))
    IN  /\ WeekPlan(week_num).has
        /\ expected_exercises # {}
        /\ 2 * Cardinality(registered_exercises \cap expected_exercises) >= Cardinality(registered_exercises)

\* monday .. sunday of the calendar week of date_str
DatesInWeek(date_str) == [i \in 1..DaysPerWeek |-> MondayOf(date_str) + (i - 1)]

\* ew[date_str] = week, saved, returned
Memoize(W, date_str, week) ==
    Resolved(week, save_progress_data([W EXCEPT !.pd.ew = Put(@, date_str, week)]))

\* a resolution that infers from the entries of the date before it looks at
\* the assignment of the date
PM_get_week_number_for_date_inferring(W0, date_str, session_week) ==
    The({ IF WeekOrder(W.pd, <<date_str>>) # <<>>
          THEN Memoize(W, date_str, MostCommonWeek(W.pd, <<date_str>>))
          ELSE IF date_str \in DOMAIN W.pd.ew THEN Resolved(W.pd.ew[date_str], W)
          ELSE Resolved(session_week, W)
          : W \in {W0} })

\* ProgressModule.get_week_number_for_date
PM_get_week_number_for_date(W0, date_str, session_week) ==
    The({ LET pd == W.pd
              matching == {w \in 1..TotalWeeks : PlanMatches(pd, date_str, w)}
              dates_in_week == DatesInWeek(date_str)
              mapped == {i \in 1..DaysPerWeek : dates_in_week[i] \in DOMAIN pd.ew}
          IN  IF date_str \in DOMAIN pd.ew
              THEN Resolved(pd.ew[date_str], W)
              ELSE IF date_str \in DOMAIN pd.ce /\ DOMAIN DayMap(pd, date_str) # {} /\ matching # {}
              THEN Memoize(W, date_str, CHOOSE w \in matching : \A v \in matching : w <= v)
              ELSE IF mapped # {}
              THEN Memoize(W, date_str, pd.ew[dates_in_week[CHOOSE i \in mapped : \A j \in mapped : i <= j]])
              ELSE IF WeekOrder(pd, dates_in_week) # <<>>
              THEN Memoize(W, date_str, MostCommonWeek(pd, dates_in_week))
              ELSE Resolved(session_week, W)
          : W \in {W0} })

\* an iteration in which an untrained today breaks the streak as well
StreakStep_today_breaks(L0, i, now_date, session_week) ==
    The({ The({
        LET total == day_stats.total
            completed == day_stats.completed
            completed_day == total > 0 /\ completed * 100 >= TrainedThreshold * total
            next == [L0 EXCEPT !.w = r.w, !.seen = i + 1]
        IN  IF day_stats.is_rest_day THEN next
            ELSE IF completed_day THEN [next EXCEPT !.streak = @ + 1]
            ELSE [next EXCEPT !.stopped = TRUE]
        : day_stats \in {get_day_completion_stats_filtered(r.w.pd, now_date - i, r.week)} })
        : r \in {PM_get_week_number_for_date(L0.w, now_date - i, session_week)} })

\* one iteration of the loop of ProgressModule.calculate_current_streak, for
\* the day i days ago; seen counts the days examined, stopped is the break
StreakStep(L0, i, now_date, session_week) ==
    The({ The({
        LET total == day_stats.total
            completed == day_stats.completed
            completed_day == total > 0 /\ completed * 100 >= TrainedThreshold * total
            next == [L0 EXCEPT !.w = r.w, !.seen = i + 1]
        IN  IF day_stats.is_rest_day THEN next
            ELSE IF completed_day THEN [next EXCEPT !.streak = @ + 1]
            ELSE IF i = 0 THEN next
            ELSE [next EXCEPT !.stopped = TRUE]
        : day_stats \in {get_day_completion_stats_filtered(r.w.pd, now_date - i, r.week)} })
        : r \in {PM_get_week_number_for_date(L0.w, now_date - i, session_week)} })

\* the iterations lo..hi of that loop, in order, up to the break
RECURSIVE StreakLoop(_, _, _, _, _)
StreakLoop(L0, lo, hi, now_date, session_week) ==
    IF lo > hi THEN L0
    ELSE IF lo = hi
    THEN The({ IF L.stopped THEN L ELSE StreakStep(L, lo, now_date, session_week) : L \in {L0} })
    ELSE The({ IF L.stopped THEN L
               ELSE StreakLoop(L, ((lo + hi) \div 2) + 1, hi, now_date, session_week)
               : L \in {StreakLoop(L0, lo, (lo + hi) \div 2, now_date, session_week)} })

\* ProgressModule.calculate_current_streak
calculate_current_streak(W, now_date, session_week) ==
    StreakLoop([streak |-> 0, w |-> load_progress_data(W), seen |-> 0, stopped |-> FALSE],
               0, StreakWindow - 1, now_date, session_week)

(***************************************************************************)
(* Application                                                             *)
(***************************************************************************)
\* ModernHeavyDutyTrainer.__init__: BaseTrainer() loads the document, sets the
\* session week when the session has none (session_week = 0), initialises the
\* calendar mapping; _sync_modules then hands the document to every module
\* and runs TrainingPlanModule.update_completed_workouts on it.
Construct(W, now_date, session_week) ==
    The({ The({ [week |-> week,
                 w |-> TP_update_completed_workouts(
                           initialize_calendar_mapping(loaded, now_date), now_date, week)]
                : week \in {IF session_week = 0
                            THEN get_auto_detected_week(loaded.pd, now_date)
                            ELSE session_week} })
          : loaded \in {load_progress_data(W)} })

\* ModernHeavyDutyTrainer.reset_all_progress: the fresh document has neither
\* start date nor calendar mapping; the mapping is initialised (and saved),
\* _sync_modules recomputes the completed workouts with the week the session
\* still has, and the document is saved
reset_all_progress(W0, now_date, session_week) ==
    The({ save_progress_data(TP_update_completed_workouts(mapped, now_date, session_week))
          : mapped \in {initialize_calendar_mapping([W0 EXCEPT !.pd = default_data], now_date)} })

\* the timestamps of a world as ranks (see the conventions above)
Stamps(W) == {W.pd.last_saved, W.file.data.last_saved} \ {0}

Rank(W, t) == Cardinality({u \in Stamps(W) : u <= t})

Renumber(W0) ==
    The({ [W EXCEPT !.pd.last_saved = Rank(W, @),
                    !.file.data.last_saved = Rank(W, @)] : W \in {W0} })

\* the world an operation starts in: datetime.now() is later than every
\* timestamp written so far
Now == Cardinality(Stamps(World(mem, file, 0))) + 1

Current == World(mem, file, Now)

\* the world an operation leaves
Becomes(W0) ==
    \E W \in {Renumber(W0)} :
        /\ mem' = W.pd
        /\ file' = W.file

NoId == ExerciseId("", "", "", 0)

NoDate == [fmt |-> "bad", d |-> 0]

NoReps == [kind |-> "text", lo |-> 0, hi |-> 0, suffix |-> <<>>]

\* what `last` records of an operation
Op(name) ==
    [op |-> name, cls |-> "", date |-> 0, id |-> NoId, completed |-> FALSE, week |-> 0,
     start |-> NoDate, ok |-> TRUE, result |-> 0, seen |-> 0,
     info |-> get_week_info(1), planned |-> <<>>, day |-> "", group |-> "",
     reps |-> NoReps, shown |-> <<>>, base |-> <<>>, plan |-> <<>>]

(***************************************************************************)
(* Inputs                                                                  *)
(***************************************************************************)
\* the calendar day of the session: the Wednesday of the week of day 0
Todays == {2}

\* a document written before 'exercise_weeks' and week suffixes existed
LegacyFile ==
    FileOf([default_data EXCEPT
                  !.has_ew = FALSE,
                  !.ce = (0 :> [vals |-> (ExerciseId("pecho", "p1", "lunes", 0) :> TRUE),
                                worder |-> <<>>])])

InitialFiles == {NoFile, LegacyFile}

MarkWeeks == {1, 2}

MarkDates == {0, 2}

MarkIds == { ExerciseId("pecho", "p1", "lunes", w) : w \in {0} \cup MarkWeeks }

StartDates == { [fmt |-> f, d |-> d] : f \in {"dmy", "ymd"}, d \in {-3, 0, 2, 7} }
                \cup { [fmt |-> f, d |-> 7] : f \in {"ymd/", "dmy-"} }
                \cup { NoDate }

SessionWeeks == {1, 2}

ProbeGroups == {"brazos", "pecho", "piernas"}

\* suffixes of the 'reps' texts of the configuration: none, words, words with
\* a hyphen, and the distance and time units
WordSuffixes == { <<>>, <<" ", "x">>, <<" ", "x", " ", "y">>, <<" ", "x", "-", "y">> }

UnitSuffixes == { <<"k", "m">>, <<" ", "s", "e", "g", "u", "n", "d", "o", "s">>, <<" ", "m", "i", "n">> }

\* the 'reps' texts: a range "lo-hi" or a single number "lo", each with a
\* suffix, and a text without any number
RepsInputs ==
    { [kind |-> k, lo |-> 8, hi |-> 10, suffix |-> x] :
          k \in {"range", "single"}, x \in WordSuffixes \cup UnitSuffixes }
      \cup { [kind |-> "text", lo |-> 0, hi |-> 0, suffix |-> <<"m", "a", "x">>] }

\* the text of a 'reps' value
RepsText(r) ==
    IF r.kind = "range" THEN Str(r.lo) \o <<"-">> \o Str(r.hi) \o r.suffix
    ELSE IF r.kind = "single" THEN Str(r.lo) \o r.suffix
    ELSE r.suffix

(***************************************************************************)
(* State machine                                                           *)
(***************************************************************************)
Init ==
    /\ today \in Todays
    /\ \E f \in InitialFiles :
         \E c \in {Construct(World(default_data, f, 1), today, 0)} :
           \E W \in {Renumber(c.w)} :
             /\ mem = W.pd
             /\ file = W.file
             /\ current_week = c.week
    /\ last = Op("init")

\* a rerun of the script: the application is constructed again, the session
\* state is kept
Restart ==
    \E c \in {Construct(Current, today, current_week)} :
        /\ Becomes(c.w)
        /\ current_week' = c.week
        /\ last' = Op("restart")
        /\ UNCHANGED today

\* the suffixed entries of a document
SuffixedEntries(pd) ==
    UNION {{<<d, id>> : id \in {i \in DOMAIN pd.ce[d].vals : i.week # 0}} : d \in DOMAIN pd.ce}

\* setCompleted(date, id, completed, week) called on an instance of class cls
MarkExercise(cls, date_str, exercise_id, completed, week_number) ==
    /\ Cardinality(SuffixedEntries(mem) \cup {<<date_str, UniqueId(exercise_id, week_number)>>}) <= MaxEntries
    /\ \E r \in {mark_exercise_completed(cls, Current, date_str, exercise_id, completed,
                                          week_number, today, current_week)} :
          /\ Becomes(r)
          /\ last' = [Op("mark") EXCEPT !.cls = cls, !.date = date_str, !.id = exercise_id,
                                        !.completed = completed, !.week = week_number,
                                        !.ok = ~r.raised]
    /\ UNCHANGED <<current_week, today>>

\* ProgressModule.calculate_current_streak, shown on the progress tab
Streak ==
    \E r \in {calculate_current_streak(Current, today, current_week)} :
        /\ Becomes(r.w)
        /\ last' = [Op("streak") EXCEPT !.result = r.streak, !.seen = r.seen]
        /\ UNCHANGED <<current_week, today>>

Next ==
    \/ Restart
    \/ \E d \in MarkDates, id \in MarkIds, c \in BOOLEAN, w \in MarkWeeks :
         MarkExercise("base", d, id, c, w)

Spec == Init /\ [][Next]_vars

\* the entries of the document in memory whose value is false
FalseEntries(pd) ==
    UNION {{<<d, id>> : id \in {i \in DOMAIN pd.ce[d].vals : ~pd.ce[d].vals[i]}} : d \in DOMAIN pd.ce}

\* the checkbox of exercise number k of a muscle group on day day_index of
\* the week shown (render_training_plan, render_exercise_details): the mark,
\* the reload, and the rerun of the script that st.rerun() starts
ToggleExercise(day_index, muscle_group, k) ==
    LET day_key == day_names[day_index]
        planned_list == get_planned_exercises_for_group(muscle_group, day_key, current_week)
        day_date == get_week_dates(mem, current_week, today).dates[day_index]
        exercise_id == ExerciseId(muscle_group, planned_list[k].name, day_key, current_week)
        is_completed == is_exercise_completed(mem, day_date, exercise_id, current_week)
        marked == mark_exercise_completed("training", Current, day_date, exercise_id,
                                          ~is_completed, current_week, today, current_week)
    IN  /\ WeekPlan(current_week).has
        /\ InSeq(muscle_group, PlannedGroups(current_week, day_key))
        /\ muscle_group \in DOMAIN config.exercises
        /\ k \in 1..Len(planned_list)
        /\ is_completed => Cardinality(FalseEntries(mem)) < MaxFalse
        /\ Becomes(Construct(load_progress_data(marked), today, current_week).w)
        /\ last' = [Op("mark") EXCEPT !.cls = "training", !.date = day_date, !.id = exercise_id,
                                      !.completed = ~is_completed, !.week = current_week]
        /\ UNCHANGED <<current_week, today>>

\* render_week_selector: another week chosen in the select box, then the rerun
SelectWeek(selected_week) ==
    /\ selected_week # current_week
    /\ Becomes(Construct(Current, today, selected_week).w)
    /\ current_week' = selected_week
    /\ last' = [Op("select") EXCEPT !.week = selected_week]
    /\ UNCHANGED today

\* render_week_selector: the button that goes to the auto-detected week
GoToCurrentWeek ==
    LET auto_week == get_auto_detected_week(mem, today)
    IN  /\ Becomes(Construct(Current, today, auto_week).w)
        /\ current_week' = auto_week
        /\ last' = [Op("auto") EXCEPT !.week = auto_week]
        /\ UNCHANGED today

NextPlan ==
    \/ \E i \in 1..DaysPerWeek, mg \in Groups, k \in 1..3 : ToggleExercise(i, mg, k)
    \/ GoToCurrentWeek
    \/ Streak

SpecPlan == Init /\ [][NextPlan]_vars

\* BaseTrainer.set_program_start_date called with a date text
SetProgramStartDate(start_date) ==
    \E r \in {set_program_start_date(Current, start_date)} :
        /\ Becomes(r.w)
        /\ last' = [Op("set_start") EXCEPT !.start = start_date, !.ok = r.ok]
        /\ UNCHANGED <<current_week, today>>

\* the storage starts or stops refusing writes (permissions, disk full)
SetFault(fault) ==
    /\ fault # file.fault
    /\ file' = [file EXCEPT !.fault = fault]
    /\ last' = Op("fault")
    /\ UNCHANGED <<mem, current_week, today>>

NextFailure ==
    \/ \E fault \in Faults \cup {NoFault} : SetFault(fault)
    \/ \E id \in MarkIds, c \in BOOLEAN, w \in MarkWeeks :
         MarkExercise("base", 0, id, c, w)

SpecFailure == Init /\ [][NextFailure]_vars

\* the button that confirms the reset (render_sidebar): reset_all_progress,
\* the session week set to 1, and the rerun of the script
ResetAllProgress ==
    \E r \in {reset_all_progress(Current, today, current_week)} :
        /\ Becomes(Construct(r, today, 1).w)
        /\ current_week' = 1
        /\ last' = Op("reset")
        /\ UNCHANGED today

NextReset ==
    \/ \E d \in MarkDates, id \in MarkIds, c \in BOOLEAN, w \in MarkWeeks :
         MarkExercise("base", d, id, c, w)
    \/ \E w \in SessionWeeks : SelectWeek(w)
    \/ ResetAllProgress

SpecReset == Init /\ [][NextReset]_vars

\* marks of two of the exercises prescribed for Monday of week 1, made through
\* an instance of either class
IndexIds == { ExerciseId("pecho", n, "lunes", 0) : n \in {"p1", "p2"} }

NextIndex ==
    \/ \E cls \in {"base", "training"}, id \in IndexIds, c \in BOOLEAN, w \in MarkWeeks :
         MarkExercise(cls, 0, id, c, w)
    \/ Restart

SpecIndex == Init /\ [][NextIndex]_vars

\* marks under either week, the streak of the progress tab and the rerun
NextResolve ==
    \/ \E id \in MarkIds, c \in BOOLEAN, w \in MarkWeeks : MarkExercise("base", 0, id, c, w)
    \/ Streak
    \/ Restart

SpecResolve == Init /\ [][NextResolve]_vars

\* stored documents that have 'exercise_weeks' but no assignment for Monday
\* 2025-08-04: Monday's entries in the order of the file, Wednesday's entries
\* of week 1, and the assignment of Wednesday when it has one
InferEntries ==
    { ExerciseId("pecho", "p1", "lunes", 1), ExerciseId("pecho", "p1", "lunes", 2),
      ExerciseId("pecho", "p2", "lunes", 2) }

InferFiles ==
    { FileOf([default_data EXCEPT
                 !.ce = IF n = 0 THEN monday
                        ELSE IF n = 1
                        THEN SetEntry(monday, 2, ExerciseId("piernas", "l1", "miercoles", 1), TRUE)
                        ELSE SetEntry(SetEntry(monday, 2, ExerciseId("piernas", "l1", "miercoles", 1), TRUE),
                                      2, ExerciseId("piernas", "l2", "miercoles", 1), TRUE),
                 !.ew = IF n > 0 /\ w > 0 THEN (2 :> w) ELSE <<>>])
      : monday \in { SetEntry(<<>>, 0, a, TRUE) : a \in InferEntries }
                   \cup { SetEntry(SetEntry(<<>>, 0, a, TRUE), 0, b, TRUE)
                          : a \in InferEntries, b \in InferEntries },
        n \in 0..2, w \in 0..2 }

InferDates == {0, 1, 2}

\* BaseTrainer.__init__ of a module used on its own: the document is loaded,
\* the session week detected, the calendar mapping initialised
InitInfer ==
    /\ today \in Todays
    /\ \E f \in InferFiles :
         \E loaded \in {load_progress_data(World(default_data, f, 1))} :
           \E W \in {Renumber(initialize_calendar_mapping(loaded, today))} :
             /\ mem = W.pd
             /\ file = W.file
             /\ current_week = get_auto_detected_week(loaded.pd, today)
    /\ last = Op("init")

\* get_week_number_for_date(date_str) called on a TrainingPlanModule
\* ("training") or on a ProgressModule ("progress")
ResolveWeek(cls, date_str) ==
    \E r \in {IF cls = "training"
               THEN TP_get_week_number_for_date(Current, date_str, current_week)
               ELSE PM_get_week_number_for_date(Current, date_str, current_week)} :
        /\ Becomes(r.w)
        /\ last' = [Op("resolve") EXCEPT !.cls = cls, !.date = date_str, !.result = r.week]
        /\ UNCHANGED <<current_week, today>>

NextInfer ==
    \E cls \in {"training", "progress"}, d \in InferDates : ResolveWeek(cls, d)

SpecInfer == InitInfer /\ [][NextInfer]_vars

\* base schedules given to the schedule generator: the muscle groups of
\* Monday, Tuesday, Wednesday and Saturday vary, the other days rest; also
\* the empty schedule of a missing 'semana{N}' and one without 'domingo'
BaseDays ==
    { <<>>, <<"pecho">>, <<"pecho", "espalda">>, <<"espalda", "hombros", "abs">>,
      <<"pecho", "abs", "cardio">>, <<"pecho", "espalda", "hombros", "brazos">> }

BaseSchedules ==
    { [RestWeek EXCEPT !["lunes"] = l, !["martes"] = t, !["miercoles"] = x, !["sabado"] = a]
      : l \in BaseDays, t \in {<<>>, <<"espalda">>}, x \in {<<>>, <<"piernas">>},
        a \in {<<>>, <<"espalda", "hombros", "abs">>} }
    \cup { <<>>, [d \in DayKeys \ {"domingo"} |-> IF d = "lunes" THEN <<"pecho">> ELSE <<>>] }

\* one week of each level and cycle position that matters to the generator
ScheduleWeeks == {1, 5, 9, 12, 13, 20}

\* generate_advanced_week(week_number) with a base schedule read from the
\* configuration
ProbeSchedule(base_schedule, week_number) ==
    /\ last' = [Op("schedule") EXCEPT !.week = week_number, !.base = base_schedule,
                                      !.plan = IntensifiedWeek(base_schedule, week_number)]
    /\ UNCHANGED <<mem, file, current_week, today>>

NextSchedule ==
    \E b \in BaseSchedules, w \in ScheduleWeeks : ProbeSchedule(b, w)

SpecSchedule == Init /\ [][NextSchedule]_vars

\* the plan view after the start date was set to Saturday 2025-08-02 or to
\* Monday 2025-08-04: the checkboxes of the third day shown, the rerun
ViewStartDates == { [fmt |-> "dmy", d |-> d] : d \in {-2, 0} }

NextView ==
    \/ \E s \in ViewStartDates : SetProgramStartDate(s)
    \/ Restart
    \/ \E mg \in Groups, k \in 1..3 : ToggleExercise(3, mg, k)

SpecView == Init /\ [][NextView]_vars

\* marks of one exercise of the plan view on either date under either week,
\* the streak of the progress tab and the rerun
AssignId == ExerciseId("pecho", "p1", "lunes", 0)

NextAssign ==
    \/ \E d \in MarkDates, c \in BOOLEAN, w \in MarkWeeks : MarkExercise("base", d, AssignId, c, w)
    \/ Streak
    \/ Restart

SpecAssign == Init /\ [][NextAssign]_vars

\* marks under the first and the last week of the program, the button that
\* goes to the auto-detected week and the rerun
AutoWeeks == {1, TotalWeeks}

NextAuto ==
    \/ \E d \in MarkDates, c \in BOOLEAN, w \in AutoWeeks : MarkExercise("base", d, AssignId, c, w)
    \/ GoToCurrentWeek
    \/ Restart

SpecAuto == Init /\ [][NextAuto]_vars

\* a mark by this instance while another module instance, constructed before
\* the mark, still holds the document it loaded; the other instance then
\* resolves the week of resolved_date (ProgressModule.get_week_number_for_date),
\* which saves its document when it infers a week
StaleResolve(date_str, completed, week_number, resolved_date) ==
    /\ Cardinality(SuffixedEntries(mem) \cup {<<date_str, UniqueId(AssignId, week_number)>>}) <= MaxEntries
    /\ \E older \in {initialize_calendar_mapping(load_progress_data(Current), today)} :
         \E marked \in {mark_exercise_completed("base",
                             [older EXCEPT !.pd = mem], date_str, AssignId, completed,
                             week_number, today, current_week)} :
           \E r \in {PM_get_week_number_for_date([marked EXCEPT !.pd = older.pd],
                                                  resolved_date, current_week)} :
             /\ Becomes([r.w EXCEPT !.pd = marked.pd])
             /\ last' = [Op("stale") EXCEPT !.cls = "progress", !.date = date_str, !.id = AssignId,
                                            !.completed = completed, !.week = week_number,
                                            !.result = r.week]
    /\ UNCHANGED <<current_week, today>>

NextStale ==
    \/ \E d \in MarkDates, c \in BOOLEAN, w \in MarkWeeks : MarkExercise("base", d, AssignId, c, w)
    \/ \E d \in MarkDates, c \in BOOLEAN, w \in MarkWeeks, rd \in MarkDates : StaleResolve(d, c, w, rd)
    \/ \E s \in ViewStartDates : SetProgramStartDate(s)
    \/ Restart

SpecStale == Init /\ [][NextStale]_vars

NextCalendar ==
    \/ \E s \in StartDates : SetProgramStartDate(s)
    \/ \E w \in SessionWeeks : SelectWeek(w)
    \/ Restart

SpecCalendar == Init /\ [][NextCalendar]_vars

\* a call of the pure functions of the plan
Probe(week_number, day_key, muscle_group) ==
    /\ last' = [Op("probe") EXCEPT !.week = week_number, !.day = day_key,
                                   !.group = muscle_group,
                                   !.info = get_week_info(week_number),
                                   !.planned = get_planned_exercises_for_group(
                                                   muscle_group, day_key, week_number)]
    /\ UNCHANGED <<mem, file, current_week, today>>

NextPure ==
    \E w \in 1..MaxProbeWeek, day_key \in DayKeys, mg \in ProbeGroups : Probe(w, day_key, mg)

SpecPure == Init /\ [][NextPure]_vars

\* the repetitions shown for a non-forearm exercise in a week
\* (render_exercise_details: level = get_week_info(week_number)['level'])
ProbeReps(week_number, r) ==
    /\ last' = [Op("reps") EXCEPT !.week = week_number,
                                  !.info = get_week_info(week_number),
                                  !.reps = r,
                                  !.shown = get_general_progression(
                                                get_week_info(week_number).level, RepsText(r))]
    /\ UNCHANGED <<mem, file, current_week, today>>

NextReps ==
    \E w \in 1..MaxProbeWeek, r \in RepsInputs : ProbeReps(w, r)

SpecReps == Init /\ [][NextReps]_vars

(***************************************************************************)
(* Day statistics: C1, C2                                                  *)
(***************************************************************************)
StatsDates == 0..(DaysPerWeek - 1)

StatsWeeks == 1..MaxStatsWeek

IsRestDayResult(stats) ==
    stats.is_rest_day /\ stats.total = 0 /\ PctEq(stats.percentage, 100)

\* C1: on a date whose plan for the week has no muscle group, each of the
\* three day-statistics implementations returns is_rest_day, total 0 and
\* percentage 100.
C1_RestDayStats ==
    \A d \in StatsDates, w \in StatsWeeks :
        PlannedGroups(w, DayKeyOf(d)) = <<>> =>
            /\ IsRestDayResult(TP_get_day_completion_stats(mem, d, w))
            /\ IsRestDayResult(get_day_completion_stats_internal(mem, d, w))
            /\ IsRestDayResult(PM_get_day_completion_stats(mem, d, w))

\* the percentage is C / T * 100 for the C completed of the T listed
\* exercises, and it reaches the threshold exactly when C / T * 100 >= 80
IsPlanPercentage(stats) ==
    LET C == CountCompleted(stats.exercises)
        T == Len(stats.exercises)
    IN  /\ stats.total = T
        /\ stats.percentage.num * T = C * stats.percentage.den
        /\ PctGE(stats.percentage, TrainedThreshold) <=> (C * 100 >= TrainedThreshold * T)

\* C2: on a date with T > 0 prescribed exercises of which C are complete,
\* the plan-based statistics (TrainingPlanModule's and BaseTrainer's, the one
\* behind the index recomputation and the week rollup) report C / T * 100 and
\* reach the trained threshold exactly from 80 up.
C2_PercentageAndThreshold ==
    \A d \in StatsDates, w \in StatsWeeks :
        LET tp == TP_get_day_completion_stats(mem, d, w)
            bt == get_day_completion_stats_internal(mem, d, w)
        IN  /\ (~tp.is_rest_day /\ tp.total > 0) => IsPlanPercentage(tp)
            /\ (~bt.is_rest_day /\ bt.total > 0) => IsPlanPercentage(bt)

(***************************************************************************)
(* Ledger: C3, C4                                                          *)
(***************************************************************************)
AllEntries(pd) ==
    UNION {{<<d, id>> : id \in DOMAIN pd.ce[d].vals} : d \in DOMAIN pd.ce}

OtherWeeks(week) == (MarkWeeks \cup {week + 1}) \ {week}

\* a step that marked (date, id, week) changed no other entry of the ledger
\* and no answer of is_exercise_completed for the id of another week
MarkIsLocal ==
    last'.op = "mark" =>
        LET d == last'.date
            uid == UniqueId(last'.id, last'.week)
        IN  /\ AllEntries(mem) \ {<<d, uid>>} = AllEntries(mem') \ {<<d, uid>>}
            /\ \A e \in AllEntries(mem) \ {<<d, uid>>} :
                   mem'.ce[e[1]].vals[e[2]] = mem.ce[e[1]].vals[e[2]]
            /\ \A w2 \in OtherWeeks(uid.week) :
                   LET other == [uid EXCEPT !.week = w2]
                   IN  is_exercise_completed(mem', d, other, w2)
                           = is_exercise_completed(mem, d, other, w2)

\* C3: marking an exercise under the id of one week changes that entry only;
\* the same exercise under the id of any other week answers as before.
C3_WeeklyIndependence == [][MarkIsLocal]_vars

\* a mark of week 1 as not completed, made while the entry of week 2 of the
\* same exercise and date is completed
C3_Witness ==
    /\ last.op = "mark"
    /\ UniqueId(last.id, last.week).week = 1
    /\ ~last.completed
    /\ is_exercise_completed(mem, last.date, [last.id EXCEPT !.week = 2], 2)
    /\ UniqueId(last.id, last.week) \in DOMAIN DayMap(mem, last.date)

\* the document a fresh process reads from the file
FreshLoad == load_progress_data(World(default_data, file, Now)).pd

\* C4: after a mark (date, id, completed, week), with the id given with or
\* without its week suffix, is_exercise_completed answers `completed` both in
\* memory and on a document freshly loaded from the file.
C4_RoundTrip ==
    last.op = "mark" =>
        /\ is_exercise_completed(mem, last.date, last.id, last.week) = last.completed
        /\ is_exercise_completed(FreshLoad, last.date, last.id, last.week) = last.completed

\* an id without suffix marked as completed and present in the file
C4_Witness ==
    /\ last.op = "mark"
    /\ last.id.week = 0
    /\ last.completed
    /\ is_exercise_completed(FreshLoad, last.date, last.id, last.week)
    /\ UniqueId(last.id, last.week) \in DOMAIN DayMap(file.data, last.date)

(***************************************************************************)
(* Auto-detected week: C5                                                  *)
(***************************************************************************)
\* the unique identifiers of the exercises planned for day i of a week
PlannedIds(week_number, i) ==
    LET planned == PlannedOfDay(PlannedGroups(week_number, day_names[i]), day_names[i], week_number)
    IN  { ExerciseId(planned[k].mg, planned[k].name, day_names[i], week_number) : k \in 1..Len(planned) }

\* every exercise planned for the week is logged as completed, under its
\* suffixed identifier, on the week's date for its day
WeekComplete(pd, week_number) ==
    \A i \in 1..DaysPerWeek : \A id \in PlannedIds(week_number, i) :
        LET d == get_week_dates(pd, week_number, today).dates[i]
        IN  id \in DOMAIN DayMap(pd, d) /\ DayMap(pd, d)[id]

\* C5: without entries the auto-detected week is 1; once every exercise
\* planned for week 1 is marked completed on the dates of week 1 it is 2.
C5_AutoAdvance ==
    /\ DOMAIN mem.ce = {} => get_auto_detected_week(mem, today) = 1
    /\ WeekComplete(mem, 1) => get_auto_detected_week(mem, today) = 2

(***************************************************************************)
(* Calendar mapping: C6                                                    *)
(***************************************************************************)
\* week w of the document is the 7 consecutive dates from s + 7 (w - 1)
WeekStartsAt(pd, w, s) ==
    get_week_dates(pd, w, today).dates
        = [i \in 1..DaysPerWeek |-> s + DaysPerWeek * (w - 1) + (i - 1)]

\* C6: after set_program_start_date(s) has succeeded, for every week 1..20
\* get_week_dates gives the 7 consecutive dates that begin at s + 7 (w - 1),
\* on the document in memory and on the document loaded again from the file.
C6_StartDateMapping ==
    (last.op = "set_start" /\ last.ok) =>
        \A w \in 1..TotalWeeks :
            /\ WeekStartsAt(mem, w, last.start.d)
            /\ WeekStartsAt(FreshLoad, w, last.start.d)

(***************************************************************************)
(* Streak: C7, C8                                                          *)
(***************************************************************************)
\* the week the streak used for a date it examined: the recorded one, else
\* the week of the session
WeekUsed(d) == IF d \in DOMAIN mem.ew THEN mem.ew[d] ELSE current_week

\* at least 80% of the exercises prescribed for the date are complete
PrescribedTrained(d) ==
    LET stats == TP_get_day_completion_stats(mem, d, WeekUsed(d))
    IN  ~stats.is_rest_day /\ stats.total > 0 /\ PctGE(stats.percentage, TrainedThreshold)

PrescribedRest(d) == PlannedGroups(WeekUsed(d), DayKeyOf(d)) = <<>>

\* C7: the streak counts no more days than those among the examined ones
\* that are trained (80% of the prescribed exercises complete, total > 0);
\* with today a trained Wednesday, a rest Tuesday, a trained Monday and the
\* training day before it not trained, the streak is 2.
C7_StreakSkipsRest ==
    last.op = "streak" =>
        /\ last.result <= Cardinality({i \in 0..(last.seen - 1) : PrescribedTrained(today - i)})
        /\ ( /\ PrescribedTrained(today)
             /\ PrescribedRest(today - 1)
             /\ PrescribedTrained(today - 2)
             /\ \E k \in 3..(StreakWindow - 1) :
                    /\ ~PrescribedRest(today - k) /\ ~PrescribedTrained(today - k)
                    /\ \A j \in 3..(k - 1) : PrescribedRest(today - j) )
           => last.result = 2

\* how the streak classifies the day i days ago
StreakDay(i) ==
    LET stats == get_day_completion_stats_filtered(mem, today - i, WeekUsed(today - i))
    IN  IF stats.is_rest_day THEN "rest"
        ELSE IF stats.total > 0 /\ stats.completed * 100 >= TrainedThreshold * stats.total
        THEN "trained"
        ELSE "untrained"

\* the first untrained training day strictly before today, 60 if there is none
StreakStop ==
    LET stops == {i \in 1..(StreakWindow - 1) : StreakDay(i) = "untrained"}
    IN  IF stops = {} THEN StreakWindow ELSE CHOOSE i \in stops : \A j \in stops : i <= j

C9_LevelInfo ==
    last.op = "probe" =>
        /\ last.info.level >= 1
        /\ last.info.week_in_cycle \in 1..WeeksPerLevel
        /\ last.week = WeeksPerLevel * (last.info.level - 1) + last.info.week_in_cycle
        /\ get_week_info(last.week + WeeksPerLevel).level = last.info.level + 1
        /\ get_week_info(last.week + WeeksPerLevel).week_in_cycle = last.info.week_in_cycle

\* week 8 is the last week of level 2
C9_Witness ==
    /\ last.op = "probe"
    /\ last.week = 8
    /\ last.info.level = 2
    /\ last.info.week_in_cycle = WeeksPerLevel

\* the positions in config.exercises['brazos'] of the exercises unlocked in a week
UnlockedArms(week_number) ==
    {i \in 1..Len(config.exercises["brazos"]) :
        config.exercises["brazos"][i].level <= ((week_number - 1) \div WeeksPerLevel) + 1}

UnlockedForearm(week_number) ==
    {i \in UnlockedArms(week_number) : config.exercises["brazos"][i].forearm}

\* the unlocked forearm exercise that has exactly `index` unlocked forearm
\* exercises before it in ascending difficulty (list order among equals)
ForearmAt(week_number, index) ==
    LET arms == config.exercises["brazos"]
        F == UnlockedForearm(week_number)
        Before(j, i) == arms[j].level < arms[i].level \/ (arms[j].level = arms[i].level /\ j < i)
    IN  arms[CHOOSE i \in F : Cardinality({j \in F : Before(j, i)}) = index]

ForearmOf(planned) == {planned[k] : k \in {n \in 1..Len(planned) : planned[n].forearm}}

\* C10: for 'brazos' the planned list is every unlocked non-forearm exercise
\* and, when forearm exercises are unlocked, exactly one of them: the one at
\* index ((w - 1) * 7 + weekday index) mod count in ascending difficulty; the
\* same arguments give the same list, and with three unlocked in weeks w and
\* w + 1 the two weeks select different exercises.
C10_ForearmRotation ==
    (last.op = "probe" /\ last.group = "brazos") =>
        LET arms == config.exercises["brazos"]
            w == last.week
            F == UnlockedForearm(w)
            NF == UnlockedArms(w) \ F
            count == Cardinality(F)
            index == ((w - 1) * DaysPerWeek + DayIndex(last.day)) % count
        IN  /\ Len(last.planned) = Cardinality(NF) + (IF F = {} THEN 0 ELSE 1)
            /\ \A i \in NF : InSeq(arms[i], last.planned)
            /\ F # {} => ForearmOf(last.planned) = {ForearmAt(w, index)}
            /\ get_planned_exercises_for_group("brazos", last.day, w) = last.planned
            /\ (count = 3 /\ Cardinality(UnlockedForearm(w + 1)) = 3) =>
                   ForearmOf(get_planned_exercises_for_group("brazos", last.day, w + 1))
                       # ForearmOf(last.planned)

\* week 5, three forearm exercises unlocked, one of them in the list
C10_Witness ==
    /\ last.op = "probe"
    /\ last.group = "brazos"
    /\ last.week = 5
    /\ Cardinality(UnlockedForearm(5)) = 3
    /\ Cardinality(ForearmOf(last.planned)) = 1
    /\ Len(last.planned) = 3

(***************************************************************************)
(* Progression of repetitions: C11                                         *)
(***************************************************************************)
\* the text r with (level - 1) * 2 added to each numeric bound
Scaled(r, level) ==
    RepsText([r EXCEPT !.lo = @ + (level - 1) * 2, !.hi = @ + (level - 1) * 2])

\* C11: a range "min-max" or a single number, with or without a text suffix,
\* is shown at level L with (L - 1) * 2 added to each bound and the suffix
\* kept ("8-10" is "8-10" at level 1 and "12-14" at level 3); a text with a
\* distance or time unit is shown unchanged.
C11_RepsScaling ==
    last.op = "reps" =>
        /\ last.reps.suffix \in UnitSuffixes => last.shown = RepsText(last.reps)
        /\ (last.reps.kind \in {"range", "single"} /\ last.reps.suffix \in WordSuffixes) =>
               last.shown = Scaled(last.reps, last.info.level)
        /\ (last.reps = [kind |-> "range", lo |-> 8, hi |-> 10, suffix |-> <<>>]
                /\ last.info.level = 1) => last.shown = <<"8", "-", "1", "0">>
        /\ (last.reps = [kind |-> "range", lo |-> 8, hi |-> 10, suffix |-> <<>>]
                /\ last.info.level = 3) => last.shown = <<"1", "2", "-", "1", "4">>

(***************************************************************************)
(* Write failure: C12                                                      *)
(***************************************************************************)
\* a step that marked (date, id, week), whatever the storage did with the
\* writes: the document in memory holds the new entry and every entry and
\* week assignment it held before, and when the storage accepts writes the
\* file holds the whole document
MarkKeepsMutations ==
    last'.op = "mark" =>
        LET d == last'.date
            uid == UniqueId(last'.id, last'.week)
        IN  /\ uid \in DOMAIN DayMap(mem', d)
            /\ DayMap(mem', d)[uid] = last'.completed
            /\ \A e \in AllEntries(mem) \ {<<d, uid>>} :
                   /\ e \in AllEntries(mem')
                   /\ mem'.ce[e[1]].vals[e[2]] = mem.ce[e[1]].vals[e[2]]
            /\ d \in DOMAIN mem'.ew
            /\ \A x \in DOMAIN mem.ew \ {d} : x \in DOMAIN mem'.ew /\ mem'.ew[x] = mem.ew[x]
            /\ file'.fault = NoFault =>
                   /\ ~file'.corrupt
                   /\ file'.data = JsonRoundTrip(mem')

\* C12: when the write of the document fails during a mark, the document in
\* memory still holds the new entry and every earlier mutation when the mark
\* ends, and the next write that succeeds stores all of them.
C12_WriteFailureKeepsMemory == [][MarkKeepsMutations]_vars

\* a mark made while the storage refuses writes, after which two entries of
\* the document in memory are not in the file
C12_Witness ==
    /\ last.op = "mark"
    /\ file.fault # NoFault
    /\ Cardinality(AllEntries(mem) \ AllEntries(FreshLoad)) >= 2

(***************************************************************************)
(* Rejected start date: C13                                                *)
(***************************************************************************)
\* a step that called set_program_start_date with a text that is neither
\* DD/MM/YYYY nor YYYY-MM-DD returned False and changed neither the
\* document in memory nor the file
RejectsBadDate ==
    (last'.op = "set_start" /\ last'.start.fmt \notin {"dmy", "ymd"}) =>
        /\ ~last'.ok
        /\ mem'.start = mem.start
        /\ mem'.map = mem.map
        /\ mem' = mem
        /\ file' = file

\* C13: set_program_start_date with a text that parses neither as DD/MM/YYYY
\* nor as YYYY-MM-DD reports failure and leaves the start date, the calendar
\* mapping and the file unchanged.
C13_BadDateRejected == [][RejectsBadDate]_vars

\* DD-MM-YYYY rejected while a start date set by the user is stored
C13_Witness ==
    /\ last.op = "set_start"
    /\ ~last.ok
    /\ last.start.fmt = "dmy-"
    /\ mem.start = [has |-> TRUE, d |-> -3]
    /\ FreshLoad.start = [has |-> TRUE, d |-> -3]

(***************************************************************************)
(* Full reset: C14                                                         *)
(***************************************************************************)
\* a document without entries and week assignments whose counter is 0
IsFreshLog(pd) ==
    /\ AllEntries(pd) = {}
    /\ DOMAIN pd.ew = {}
    /\ pd.total_workouts = 0

\* C14: after the reset, the document in memory and the one in the file have
\* no completion entries, no week assignments and total_workouts 0, the week
\* of the session is 1 and the auto-detected week is 1.
C14_ResetAllProgress ==
    last.op = "reset" =>
        /\ IsFreshLog(mem)
        /\ IsFreshLog(FreshLoad)
        /\ current_week = 1
        /\ get_auto_detected_week(mem, today) = 1

(***************************************************************************)
(* Stored calendar mapping: C15                                            *)
(***************************************************************************)
\* the weeks of the stored mapping of a document are 1..20 and week w is the
\* 7 dates whose i-th date falls on weekday first + i
MappingWeekdays(pd, first) ==
    pd.map.has =>
        /\ DOMAIN pd.map.weeks = 1..TotalWeeks
        /\ \A w \in 1..TotalWeeks :
             /\ Len(pd.map.weeks[w].dates) = DaysPerWeek
             /\ \A i \in 1..DaysPerWeek :
                  Weekday(pd.map.weeks[w].dates[i]) = (first + (i - 1)) % DaysPerWeek

DoneIds(pd, week_number, i) ==
    LET d == get_week_dates(pd, week_number, today).dates[i]
    IN  {id \in PlannedIds(week_number, i) : id \in DOMAIN DayMap(pd, d) /\ DayMap(pd, d)[id]}

\* the training days of a week (days with planned exercises) and those of
\* them that are trained (at least 80% of the planned exercises completed)
TrainingDays(week_number) == {i \in 1..DaysPerWeek : PlannedIds(week_number, i) # {}}

TrainedDays(pd, week_number) ==
    {i \in TrainingDays(week_number) :
        Cardinality(DoneIds(pd, week_number, i)) * 100
            >= TrainedThreshold * Cardinality(PlannedIds(week_number, i))}

\* the completion percentage of a week: trained training days over training days
WeekRollup(pd, week_number) ==
    IF TrainingDays(week_number) = {} THEN Pct(0, 100)
    ELSE Pct(Cardinality(TrainedDays(pd, week_number)), Cardinality(TrainingDays(week_number)))

\* the largest week suffix among the entries whose value is true
MaxCompletedWeek(pd) == SetMax(CompletedWeeks(pd))

\* C16: when a completed entry exists, with N the largest week suffix among
\* the entries whose value is true, the auto-detected week is N when the
\* completion percentage of week N is below 80 and min(N + 1, 20) when it is
\* at or above 80.
C16_AutoDetectRule ==
    CompletedWeeks(mem) # {} =>
        LET N == MaxCompletedWeek(mem)
        IN  get_auto_detected_week(mem, today)
                = IF PctGE(WeekRollup(mem, N), TrainedThreshold)
                  THEN (IF N + 1 < TotalWeeks THEN N + 1 ELSE TotalWeeks)
                  ELSE N

(***************************************************************************)
(* Index of completed workouts: C17                                        *)
(***************************************************************************)
\* the completed and the prescribed exercises of a date under a week
DayCompleted(pd, d, w) ==
    CountCompleted(ExerciseList(pd, d, DayKeyOf(d), w,
                                PlannedOfDay(PlannedGroups(w, DayKeyOf(d)), DayKeyOf(d), w)))

DayPrescribed(w, d) == Len(PlannedOfDay(PlannedGroups(w, DayKeyOf(d)), DayKeyOf(d), w))

\* C17: after every mark or un-mark, every date with entries (whose day is a
\* rest day or has prescribed exercises under the date's week) is in the
\* index of its month exactly when it is a rest day or at least 80% of its
\* prescribed exercises are complete; un-marking below 80% removes it.
C17_IndexFollowsTrained ==
    (last.op = "mark" /\ last.ok) =>
        \A d \in DOMAIN mem.ce :
            LET w == WeekUsed(d)
                rest == PlannedGroups(w, DayKeyOf(d)) = <<>>
                T == DayPrescribed(w, d)
                C == DayCompleted(mem, d, w)
            IN  (rest \/ T > 0) =>
                    ((d \in Get(mem.cw, MonthKey(d), {}))
                        <=> (rest \/ C * 100 >= TrainedThreshold * T))

(***************************************************************************)
(* Week resolution: C18                                                    *)
(***************************************************************************)
\* every assignment of old is an assignment of new, with the same week
ExtendsAssignments(old, new) == \A d \in DOMAIN old : d \in DOMAIN new /\ new[d] = old[d]

\* both implementations, called for a date on the current document
Resolutions(d) ==
    { TP_get_week_number_for_date(Current, d, current_week),
      PM_get_week_number_for_date(Current, d, current_week) }

\* a resolution returns the assignment of the date when there is one and then
\* changes no assignment; otherwise it adds at most the one of the date; the
\* streak and the recomputation of the index keep every assignment (a mark
\* may replace only the assignment of the date it marks)
ResolveKeepsAssignments ==
    /\ \A d \in StatsDates : \A r \in Resolutions(d) :
         /\ d \in DOMAIN mem.ew => (r.week = mem.ew[d] /\ r.w.pd.ew = mem.ew)
         /\ ExtendsAssignments(mem.ew, r.w.pd.ew)
         /\ DOMAIN r.w.pd.ew \subseteq DOMAIN mem.ew \cup {d}
    /\ \A d \in DOMAIN mem.ew :
         \/ last'.op = "mark" /\ d = last'.date
         \/ d \in DOMAIN mem'.ew /\ mem'.ew[d] = mem.ew[d]

\* C18: the week resolved for a date is its explicit assignment whenever one
\* exists, and no resolution (of either implementation, also those made by
\* the streak and by the recomputation of the index) changes an assignment
\* that exists; inference only adds assignments for dates that had none.
C18_ExplicitAssignmentKept == [][ResolveKeepsAssignments]_vars

\* the streak has added assignments by inference while the assignment of a
\* date whose entries carry another week suffix is still the explicit one
C18_Witness ==
    /\ last.op = "streak"
    /\ \E d \in DOMAIN mem.ew : d \notin DOMAIN mem.ce
    /\ \E d \in DOMAIN mem.ce :
         /\ d \in DOMAIN mem.ew
         /\ WeekOrder(mem, <<d>>) # <<>>
         /\ MostCommonWeek(mem, <<d>>) # mem.ew[d]

(***************************************************************************)
(* Inference from the entries of the date: C19                             *)
(***************************************************************************)
\* the week suffixes that are most frequent among the entries of a date
OwnModes(pd, d) ==
    LET Count(w) == Cardinality({id \in DOMAIN DayMap(pd, d) : id.week = w})
        weeks == {id.week : id \in DOMAIN DayMap(pd, d)} \ {0}
    IN  {w \in weeks : \A v \in weeks : Count(v) <= Count(w)}

\* a resolution gives a most frequent suffix of the date's own entries,
\* stores it as the assignment of the date, and gives it again when repeated
InfersOwnMode(d, first, second) ==
    /\ first.week \in OwnModes(mem, d)
    /\ d \in DOMAIN first.w.pd.ew /\ first.w.pd.ew[d] = first.week
    /\ second.week = first.week

\* C19: for a date without assignment whose entries carry week suffixes, each
\* implementation of the resolution returns the most frequent suffix among
\* the date's own entries, whatever is logged or assigned on the other dates
\* of the calendar week, stores it, and returns it again on a second call.
C19_InferredFromOwnEntries ==
    \A d \in InferDates :
        (d \notin DOMAIN mem.ew /\ OwnModes(mem, d) # {}) =>
            /\ \E first \in {TP_get_week_number_for_date(Current, d, current_week)} :
                 InfersOwnMode(d, first, TP_get_week_number_for_date(first.w, d, current_week))
            /\ \E first \in {PM_get_week_number_for_date(Current, d, current_week)} :
                 InfersOwnMode(d, first, PM_get_week_number_for_date(first.w, d, current_week))

(***************************************************************************)
(* Week assignment of a mark: C20                                          *)
(***************************************************************************)
\* a mark with week w gives the date the assignment w when the date had none
\* or the exercise is marked completed, and leaves the assignment as it was
\* when it un-marks on a date that has one; no other assignment changes
MarkAssignsWeek ==
    (last'.op = "mark" /\ last'.ok) =>
        LET d == last'.date
        IN  /\ d \in DOMAIN mem'.ew
            /\ mem'.ew[d] = IF last'.completed \/ d \notin DOMAIN mem.ew
                            THEN last'.week ELSE mem.ew[d]
            /\ \A e \in (DOMAIN mem.ew \cup DOMAIN mem'.ew) \ {d} :
                 e \in DOMAIN mem.ew /\ e \in DOMAIN mem'.ew /\ mem'.ew[e] = mem.ew[e]

\* C20: mark_exercise_completed(date, id, completed, w) sets the week
\* assignment of the date to w iff the date had no assignment or completed
\* is true; un-marking on a date that has an assignment leaves it unchanged.
C20_MarkAssignsWeek == [][MarkAssignsWeek]_vars

\* an exercise was un-marked under week w on a date whose assignment is, and
\* stays, another week
C20_Witness ==
    /\ last.op = "mark" /\ last.ok /\ ~last.completed
    /\ last.date \in DOMAIN mem.ew
    /\ mem.ew[last.date] # last.week

(***************************************************************************)
(* Schedule generator, volume mode: C21                                    *)
(***************************************************************************)
LevelOf(week_number) == ((week_number - 1) \div WeeksPerLevel) + 1

SeqSet(s) == {s[i] : i \in 1..Len(s)}

\* C21: in a week of level 3 a training day of the base schedule keeps its
\* groups and gains at most one, a group it did not have, and does not end
\* with more than 3 groups unless it had more than 3; the rest days other
\* than the converted Tuesday stay rest days.
C21_VolumeMode ==
    (last.op = "schedule" /\ LevelOf(last.week) = 3) =>
        \A day \in DOMAIN last.base :
            LET old == last.base[day]
                new == last.plan[day]
            IN  /\ old # <<>> =>
                     /\ Len(new) <= Len(old) + 1
                     /\ SubSeq(new, 1, Len(old)) = old
                     /\ Len(new) = Len(old) + 1 => new[Len(new)] \notin SeqSet(old)
                     /\ Len(new) > 3 => Len(old) > 3
                /\ (old = <<>> /\ day # "martes") => new = <<>>

(***************************************************************************)
(* Schedule generator, frequency mode: C22                                 *)
(***************************************************************************)
\* C22: in a week of level 2 the rest Tuesday of the base schedule becomes a
\* training day with hombros, abs and cardio, and every other day of the
\* base schedule keeps exactly its list of groups: training days unchanged,
\* the remaining rest days still empty.
C22_FrequencyMode ==
    (last.op = "schedule" /\ LevelOf(last.week) = 2) =>
        /\ DOMAIN last.plan = DOMAIN last.base
        /\ \A day \in DOMAIN last.base :
             last.plan[day] = IF day = "martes" /\ last.base[day] = <<>>
                              THEN <<"hombros", "abs", "cardio">>
                              ELSE last.base[day]

\* a week of level 2 was generated from a base schedule with a rest Tuesday,
\* a training day and other rest days
C22_Witness ==
    /\ last.op = "schedule" /\ LevelOf(last.week) = 2
    /\ DOMAIN last.base = DayKeys
    /\ last.base["martes"] = <<>> /\ last.plan["martes"] = <<"hombros", "abs", "cardio">>
    /\ last.base["lunes"] # <<>> /\ last.plan["lunes"] = last.base["lunes"]
    /\ last.base["jueves"] = <<>> /\ last.plan["jueves"] = <<>>

(***************************************************************************)
(* Schedule generator, advanced mode: C23                                  *)
(***************************************************************************)
TrainingDaysOf(plan) == {day \in DOMAIN plan : plan[day] # <<>>}

\* C23: for every week of level 4 or more the generated plan has, whatever
\* the base schedule, the 7 days of the week, 6 of them training days and 1
\* a rest day.
C23_AdvancedPlan ==
    (last.op = "schedule" /\ LevelOf(last.week) >= 4) =>
        /\ DOMAIN last.plan = DayKeys
        /\ Cardinality(TrainingDaysOf(last.plan)) = 6
        /\ Cardinality(DayKeys \ TrainingDaysOf(last.plan)) = 1

(***************************************************************************)
(* Exercise selection by level: C24                                        *)
(***************************************************************************)
\* the positions in config.exercises[group] of the exercises whose
\* difficulty level is at most the level of the week
UnlockedAt(muscle_group, week_number) ==
    {i \in 1..Len(config.exercises[muscle_group]) :
        config.exercises[muscle_group][i].level <= LevelOf(week_number)}

\* C24: for a group other than 'brazos' the planned list is exactly the
\* exercises of the group whose difficulty level is at most the level of the
\* week, in the order of the configuration, and every exercise planned for a
\* week is planned for every later week.
C24_LevelFilter ==
    (last.op = "probe" /\ last.group # "brazos") =>
        LET all_ex == config.exercises[last.group]
            U == UnlockedAt(last.group, last.week)
            Position(e) == CHOOSE i \in 1..Len(all_ex) : all_ex[i] = e
        IN  /\ Len(last.planned) = Cardinality(U)
            /\ SeqSet(last.planned) = {all_ex[i] : i \in U}
            /\ \A j, k \in 1..Len(last.planned) :
                 j < k => Position(last.planned[j]) < Position(last.planned[k])
            /\ \A later \in last.week..MaxProbeWeek :
                 SeqSet(last.planned)
                     \subseteq SeqSet(get_planned_exercises_for_group(last.group, last.day, later))

\* 'piernas' probed in a week of level 3 or more, where the exercise of
\* level 3 is planned after the one of level 1, and 'pecho' has an exercise
\* that a week of level 1 does not plan
C24_Witness ==
    /\ last.op = "probe" /\ last.group = "piernas"
    /\ LevelOf(last.week) >= 3
    /\ Len(last.planned) = 2
    /\ last.planned[1].level = 1 /\ last.planned[2].level = 3
    /\ Len(get_planned_exercises_for_group("pecho", last.day, 1)) < Len(config.exercises["pecho"])

(***************************************************************************)
(* Ranges of the day statistics: C25                                       *)
(***************************************************************************)
\* 0 <= completed <= total, 0 <= percentage <= 100, and completed is the
\* given number of listed exercises flagged as completed
InRange(stats, flagged) ==
    /\ 0 <= stats.completed /\ stats.completed <= stats.total
    /\ 0 <= stats.percentage.num /\ stats.percentage.den > 0
    /\ stats.percentage.num * 100 <= 100 * stats.percentage.den
    /\ stats.completed = flagged

FlaggedOf(exercises) == Cardinality({e \in exercises : e.completed})

\* C25: every result of the four day-statistics functions has
\* 0 <= completed <= total, 0 <= percentage <= 100 and completed equal to the
\* number of listed exercises whose completed flag is true.
C25_StatsInRange ==
    \A d \in StatsDates, w \in StatsWeeks :
        LET bt == get_day_completion_stats_internal(mem, d, w)
            tp == TP_get_day_completion_stats(mem, d, w)
            pm == PM_get_day_completion_stats(mem, d, w)
            pf == get_day_completion_stats_filtered(mem, d, w)
        IN  /\ InRange(bt, CountCompleted(bt.exercises))
            /\ InRange(tp, CountCompleted(tp.exercises))
            /\ InRange(pm, IF pm.is_rest_day \/ pm.is_empty_day THEN 0 ELSE FlaggedOf(pm.exercises))
            /\ InRange(pf, IF pf.is_rest_day \/ pf.is_empty_day THEN 0 ELSE FlaggedOf(pf.exercises))

(***************************************************************************)
(* Day keys of the plan view and of the statistics: C26                    *)
(***************************************************************************)
\* the identifiers the plan view builds for the exercises it shows on the
\* i-th day of the week shown
ShownIds(i) ==
    LET day_key == day_names[i]
        groups == PlannedGroups(current_week, day_key)
    IN  UNION { { ExerciseId(groups[g], e.name, day_key, current_week)
                  : e \in SeqSet(get_planned_exercises_for_group(groups[g], day_key, current_week)) }
                : g \in {n \in 1..Len(groups) : groups[n] \in DOMAIN config.exercises} }

\* C26: the day key under which the plan view shows and marks the exercises
\* of the i-th date of the week is the key of that date's weekday, which the
\* day statistics use; so when every exercise shown for a date is marked
\* completed the statistics of the date report completed = total.
C26_SameDayKey ==
    \A i \in 1..DaysPerWeek :
        LET d == get_week_dates(mem, current_week, today).dates[i]
            stats == TP_get_day_completion_stats(mem, d, current_week)
        IN  /\ day_names[i] = DayKeyOf(d)
            /\ (ShownIds(i) # {}
                /\ \A id \in ShownIds(i) : id \in DOMAIN DayMap(mem, d) /\ DayMap(mem, d)[id])
               => stats.completed = stats.total


(***************************************************************************)
(* Date to week and week to dates: C27                                     *)
(***************************************************************************)
\* every date of every week of the document belongs to that week, and the
\* week of any date is within 1..20
WeeksAgree(pd) ==
    pd.start.has =>
        \A w \in 1..TotalWeeks, i \in 1..DaysPerWeek :
            LET d == get_week_dates(pd, w, today).dates[i]
                week == get_calendar_week_for_date(pd, d, current_week)
            IN  week = w /\ week \in 1..TotalWeeks

\* C27: with a program start date set, for every week w of 1..20 and every
\* date d of get_week_dates(w), get_calendar_week_for_date(d) is w, on the
\* document in memory and on the document loaded again from the file.
C27_WeeksAgree ==
    WeeksAgree(mem) /\ WeeksAgree(FreshLoad)


(***************************************************************************)
(* Origin of the week assignments: C28                                     *)
(***************************************************************************)
\* the weeks passed to mark_exercise_completed for the date: every call
\* passes an identifier without suffix, so the suffixes of the entries of the
\* date are the weeks of the calls
WeeksPassed(pd, d) == { id.week : id \in DOMAIN DayMap(pd, d) } \ {0}

\* the date has an entry written before the week suffixes existed
Migrated(pd, d) == \E id \in DOMAIN DayMap(pd, d) : id.week = 0

\* C28: every date that has a completion entry has a week assignment, and
\* the assignment is a week passed to mark_exercise_completed for that date,
\* or 1 for a date of migrated data.
C28_AssignmentWasPassed ==
    \A d \in DOMAIN mem.ce :
        DOMAIN DayMap(mem, d) # {} =>
            /\ d \in DOMAIN mem.ew
            /\ \/ mem.ew[d] \in WeeksPassed(mem, d)
               \/ mem.ew[d] = 1 /\ Migrated(mem, d)


(***************************************************************************)
(* Range of the auto-detected week: C29                                    *)
(***************************************************************************)
\* some entry of the document is true
AnyTrue(pd) == \E d \in DOMAIN pd.ce : \E id \in DOMAIN pd.ce[d].vals : pd.ce[d].vals[id]

\* C29: the auto-detected week is within 1..20, it is 1 when there are
\* entries and none of them is true, and it is never lower than the highest
\* week that has a true entry.
C29_AutoWeekRange ==
    LET week == get_auto_detected_week(mem, today)
    IN  /\ week \in 1..TotalWeeks
        /\ (DOMAIN mem.ce # {} /\ ~AnyTrue(mem)) => week = 1
        /\ \A w \in CompletedWeeks(mem) : week >= w

\* the button has gone to week 20 with a true entry of week 20, beside a date
\* whose entries are all false
C29_Witness ==
    /\ last.op = "auto" /\ last.week = TotalWeeks
    /\ TotalWeeks \in CompletedWeeks(mem)
    /\ \E d \in DOMAIN mem.ce :
           DOMAIN mem.ce[d].vals # {} /\ \A id \in DOMAIN mem.ce[d].vals : ~mem.ce[d].vals[id]


(***************************************************************************)
(* Storage and memory after a mutation: C30                                *)
(***************************************************************************)
\* completion entries, week assignments, completed workouts and start date
LogOf(pd) == [ce |-> [d \in DOMAIN pd.ce |-> pd.ce[d].vals], ew |-> pd.ew, cw |-> pd.cw,
              start |-> pd.start]

\* C30: after mark_exercise_completed or set_program_start_date the
\* document loaded again from the file equals the document in memory of the
\* instance that ran it (entries, week assignments, completed workouts, start
\* date), and after a save by another instance that holds an older document
\* the file still has the entry that was marked.
C30_StorageKeepsEntries ==
    /\ (last.op \in {"mark", "set_start"} /\ last.ok) => LogOf(FreshLoad) = LogOf(mem)
    /\ last.op = "stale" =>
           UniqueId(last.id, last.week) \in DOMAIN DayMap(FreshLoad, last.date)

====
